---- MODULE Spec2Model ----
(***************************************************************************)
(* Loan eligibility and recommendation engine of CrediVist                 *)
(* (src/src/loan_engine.py), its trust score (src/src/scoring_engine.py)   *)
(* and its persona scorer (src/src/alternative_profiles.py), as state      *)
(* machines of calls to their public functions: Spec for the loan engine,  *)
(* SpecCalc for its calculators, SpecScore for the trust score,            *)
(* SpecPersona for the persona path, SpecSearch for the catalog search and *)
(* SpecObjects for the objects the calls read and write.                   *)
(*                                                                         *)
(* Number representation.  The Python code computes on floats.  Here       *)
(*   - a score is an integer count of 1/ScoreScale points (score 749.5     *)
(*     is 1499 when ScoreScale = 2);                                       *)
(*   - money is an integer count of paise (1/Paise rupee), the resolution  *)
(*     of the code's round(x, 2);                                          *)
(*   - an annual interest rate is an integer count of basis points         *)
(*     (0.01 %), the resolution of the code's round(effective_rate, 2);    *)
(*   - foir_cap is an integer percentage;                                  *)
(*   - (1+r)^n is carried in fixed point, PowScale to the unit.            *)
(* Products and quotients are rounded to the nearest unit; comparisons     *)
(* are exact on the represented values.                                    *)
(***************************************************************************)
EXTENDS Integers, Sequences, FiniteSets, TLC

VARIABLES pc, call, result

vars == <<pc, call, result>>

(***************************************************************************)
(* Resolutions                                                             *)
(***************************************************************************)
ScoreScale == 2

Paise == 100

PowLimb == 8192

PowScale == PowLimb * PowLimb

Rs(x) == x * Paise

Pts(x) == x * ScoreScale

Min2(a, b) == IF a <= b THEN a ELSE b

Max2(a, b) == IF a >= b THEN a ELSE b

(***************************************************************************)
(* Exact integer arithmetic within 32 bits                                 *)
(***************************************************************************)
\* <<q, r>> with a*b = q*c + r and 0 <= r < c, for a, b >= 0 and 0 < c < 2^30.
\* b is consumed bit by bit, lowest first, while <<aq, ar>> holds a*2^i as
\* aq*c + ar, so that no intermediate value leaves 32 bits.  (No argument is
\* ever negative: the guard only evaluates them at each step.)
AddQR(aq, ar, c, Q, R) ==
    IF R + ar >= c THEN <<Q + aq + 1, R + ar - c>> ELSE <<Q + aq, R + ar>>

\* 2 * <<aq, ar>>, as a quotient and a remainder modulo c
DoubleQ(aq, ar, c) == 2 * aq + (IF 2 * ar >= c THEN 1 ELSE 0)

DoubleR(ar, c) == (2 * ar) % c

RECURSIVE MulDivBits(_, _, _, _, _, _)
MulDivBits(aq, ar, b, c, Q, R) ==
    IF aq < 0 \/ ar < 0 \/ Q < 0 \/ R < 0 \/ b = 0 THEN <<Q, R>>
    ELSE IF b = 1 THEN AddQR(aq, ar, c, Q, R)
    ELSE IF b % 2 = 1
    THEN MulDivBits(DoubleQ(aq, ar, c), DoubleR(ar, c), b \div 2, c,
                    AddQR(aq, ar, c, Q, R)[1], AddQR(aq, ar, c, Q, R)[2])
    ELSE MulDivBits(DoubleQ(aq, ar, c), DoubleR(ar, c), b \div 2, c, Q, R)

\* The quotient of <<q, r>> rounded to the nearest integer, halves upwards
Nearest(qr, c) == IF 2 * qr[2] >= c THEN qr[1] + 1 ELSE qr[1]

\* a*b/c rounded to the nearest integer (a float product followed by round()).
MulDiv(a, b, c) ==
    IF a = 0 \/ b <= 1073741823 \div a
    THEN Nearest(<<(a * b) \div c, (a * b) % c>>, c)
    ELSE IF a <= b THEN Nearest(MulDivBits(b \div c, b % c, a, c, 0, 0), c)
    ELSE Nearest(MulDivBits(a \div c, a % c, b, c, 0, 0), c)

\* round(x, 0) of an amount held in paise: nearest whole rupee, ties to even.
Round0(p) ==
    LET q == p \div Paise
        r == p % Paise
    IN  IF 2 * r < Paise THEN q * Paise
        ELSE IF 2 * r > Paise THEN (q + 1) * Paise
        ELSE IF q % 2 = 0 THEN q * Paise ELSE (q + 1) * Paise

\* x*y/PowScale for fixed-point x, y (two limbs each).
FixMul(x, y) ==
    LET x1 == x \div PowLimb
        x0 == x % PowLimb
        y1 == y \div PowLimb
        y0 == y % PowLimb
    IN  x1 * y1 + ((x1 * y0 + x0 * y1 + ((x0 * y0) \div PowLimb)) \div PowLimb)

FixSquare(x) == FixMul(x, x)

\* math.pow(base, n) by repeated squaring, base in fixed point.
RECURSIVE FixPow(_, _)
FixPow(base, n) ==
    IF n = 0 THEN PowScale
    ELSE IF n % 2 = 1 THEN FixMul(FixSquare(FixPow(base, n \div 2)), base)
    ELSE FixSquare(FixPow(base, n \div 2))

\* 1 + r, r = annual_rate / (12 * 100), for a rate in basis points.
MonthlyGrowth(rate_bp) == PowScale + MulDiv(rate_bp, PowScale, 120000)

(***************************************************************************)
(* SCORE_TIERS, in the dict's insertion order                              *)
(***************************************************************************)
SCORE_TIERS ==
    << [tier_key |-> "excellent", range |-> <<750, 900>>, grade |-> "Excellent",
        max_simultaneous_loans |-> 3, max_exposure_multiplier |-> 6,
        max_tenure_months |-> 60, foir_cap |-> 50,
        collateral_required |-> FALSE, pre_approval |-> "Pre-Approved"],
       [tier_key |-> "good", range |-> <<650, 749>>, grade |-> "Good",
        max_simultaneous_loans |-> 2, max_exposure_multiplier |-> 4,
        max_tenure_months |-> 36, foir_cap |-> 40,
        collateral_required |-> FALSE, pre_approval |-> "Likely Approved"],
       [tier_key |-> "fair", range |-> <<500, 649>>, grade |-> "Fair",
        max_simultaneous_loans |-> 1, max_exposure_multiplier |-> 2,
        max_tenure_months |-> 18, foir_cap |-> 35,
        collateral_required |-> FALSE, pre_approval |-> "Needs Review"],
       [tier_key |-> "poor", range |-> <<400, 499>>, grade |-> "Poor",
        max_simultaneous_loans |-> 1, max_exposure_multiplier |-> 1,
        max_tenure_months |-> 12, foir_cap |-> 30,
        collateral_required |-> TRUE, pre_approval |-> "High Risk"],
       [tier_key |-> "very_poor", range |-> <<300, 399>>, grade |-> "Very Poor",
        max_simultaneous_loans |-> 0, max_exposure_multiplier |-> 0,
        max_tenure_months |-> 0, foir_cap |-> 0,
        collateral_required |-> TRUE, pre_approval |-> "Not Eligible"] >>

\* low <= score <= high for a tier's range (whole points) and a scaled score.
InRange(tier, score) ==
    Pts(tier.range[1]) <= score /\ score <= Pts(tier.range[2])

RECURSIVE TierScan(_, _)
TierScan(i, score) ==
    IF i > Len(SCORE_TIERS) THEN SCORE_TIERS[5]
    ELSE IF InRange(SCORE_TIERS[i], score) THEN SCORE_TIERS[i]
    ELSE TierScan(i + 1, score)

\* A variant of get_score_tier in which the Poor tier starts at 300
get_score_tier_poor_from_300(score) ==
    IF InRange(SCORE_TIERS[5], score) THEN SCORE_TIERS[4] ELSE TierScan(1, score)

get_score_tier(score) == TierScan(1, score)

(***************************************************************************)
(* Loan catalogs, in the dicts' insertion order.  Amounts in paise, rates  *)
(* in basis points; subsidy is the truth value of the subsidy text.        *)
(***************************************************************************)
TRANSACTION_LOANS ==
    <<
      [key |-> "personal_loan", category |-> "Personal", min_score |-> 550,
       min_income |-> Rs(10000), amount_range |-> <<Rs(25000), Rs(500000)>>,
       interest_range |-> <<1050, 2400>>, tenure_range |-> <<6, 60>>,
       collateral |-> FALSE, subsidy |-> FALSE],
      [key |-> "business_loan", category |-> "Business", min_score |-> 600,
       min_income |-> Rs(15000), amount_range |-> <<Rs(50000), Rs(1000000)>>,
       interest_range |-> <<1200, 2200>>, tenure_range |-> <<12, 60>>,
       collateral |-> FALSE, subsidy |-> FALSE],
      [key |-> "home_loan", category |-> "Property", min_score |-> 700,
       min_income |-> Rs(25000), amount_range |-> <<Rs(500000), Rs(5000000)>>,
       interest_range |-> <<850, 1200>>, tenure_range |-> <<60, 360>>,
       collateral |-> TRUE, subsidy |-> TRUE],
      [key |-> "vehicle_loan", category |-> "Vehicle", min_score |-> 600,
       min_income |-> Rs(20000), amount_range |-> <<Rs(100000), Rs(1500000)>>,
       interest_range |-> <<900, 1500>>, tenure_range |-> <<12, 84>>,
       collateral |-> TRUE, subsidy |-> FALSE],
      [key |-> "education_loan", category |-> "Education", min_score |-> 500,
       min_income |-> Rs(0), amount_range |-> <<Rs(100000), Rs(2000000)>>,
       interest_range |-> <<800, 1400>>, tenure_range |-> <<60, 180>>,
       collateral |-> FALSE, subsidy |-> TRUE],
      [key |-> "gold_loan", category |-> "Secured", min_score |-> 400,
       min_income |-> Rs(0), amount_range |-> <<Rs(10000), Rs(2500000)>>,
       interest_range |-> <<700, 1500>>, tenure_range |-> <<3, 36>>, collateral |-> TRUE,
       subsidy |-> FALSE],
      [key |-> "credit_card", category |-> "Revolving", min_score |-> 650,
       min_income |-> Rs(15000), amount_range |-> <<Rs(15000), Rs(300000)>>,
       interest_range |-> <<2400, 4200>>, tenure_range |-> <<0, 0>>,
       collateral |-> FALSE, subsidy |-> FALSE],
      [key |-> "loan_against_fd", category |-> "Secured", min_score |-> 400,
       min_income |-> Rs(0), amount_range |-> <<Rs(10000), Rs(1000000)>>,
       interest_range |-> <<650, 1000>>, tenure_range |-> <<1, 60>>, collateral |-> TRUE,
       subsidy |-> FALSE],
      [key |-> "emergency_loan", category |-> "Personal", min_score |-> 450,
       min_income |-> Rs(8000), amount_range |-> <<Rs(5000), Rs(100000)>>,
       interest_range |-> <<1500, 3600>>, tenure_range |-> <<1, 12>>,
       collateral |-> FALSE, subsidy |-> FALSE]
    >>

PERSONA_LOANS ==
    [ farmer |-> <<
          [key |-> "kcc", category |-> "Agriculture", min_score |-> 450,
           amount_range |-> <<Rs(25000), Rs(300000)>>, interest_range |-> <<400, 700>>,
           tenure_range |-> <<12, 60>>, collateral |-> FALSE, subsidy |-> TRUE,
           eligibility_criteria |-> <<"owns_land", "crops_per_year">>],
          [key |-> "crop_loan", category |-> "Agriculture", min_score |-> 400,
           amount_range |-> <<Rs(10000), Rs(200000)>>, interest_range |-> <<400, 900>>,
           tenure_range |-> <<6, 12>>, collateral |-> FALSE, subsidy |-> TRUE,
           eligibility_criteria |-> <<"owns_land">>],
          [key |-> "farm_equipment", category |-> "Agriculture", min_score |-> 550,
           amount_range |-> <<Rs(50000), Rs(1000000)>>, interest_range |-> <<800, 1200>>,
           tenure_range |-> <<24, 84>>, collateral |-> TRUE, subsidy |-> TRUE,
           eligibility_criteria |-> <<"owns_land", "land_acres">>],
          [key |-> "dairy_poultry", category |-> "Allied Agriculture", min_score |-> 500,
           amount_range |-> <<Rs(25000), Rs(500000)>>, interest_range |-> <<700, 1100>>,
           tenure_range |-> <<12, 60>>, collateral |-> FALSE, subsidy |-> TRUE,
           eligibility_criteria |-> <<>>],
          [key |-> "solar_pump", category |-> "Agriculture", min_score |-> 450,
           amount_range |-> <<Rs(20000), Rs(300000)>>, interest_range |-> <<500, 800>>,
           tenure_range |-> <<12, 84>>, collateral |-> FALSE, subsidy |-> TRUE,
           eligibility_criteria |-> <<"owns_land">>],
          [key |-> "warehouse_receipt", category |-> "Agriculture", min_score |-> 500,
           amount_range |-> <<Rs(10000), Rs(500000)>>, interest_range |-> <<600, 900>>,
           tenure_range |-> <<3, 12>>, collateral |-> TRUE, subsidy |-> FALSE,
           eligibility_criteria |-> <<"has_warehouse_receipt">>]
        >>,
      student |-> <<
          [key |-> "education_loan", category |-> "Education", min_score |-> 450,
           amount_range |-> <<Rs(100000), Rs(2000000)>>,
           interest_range |-> <<800, 1200>>, tenure_range |-> <<60, 180>>,
           collateral |-> FALSE, subsidy |-> TRUE,
           eligibility_criteria |-> <<"score_value">>],
          [key |-> "skill_loan", category |-> "Education", min_score |-> 400,
           amount_range |-> <<Rs(5000), Rs(150000)>>, interest_range |-> <<800, 1200>>,
           tenure_range |-> <<3, 84>>, collateral |-> FALSE, subsidy |-> TRUE,
           eligibility_criteria |-> <<>>],
          [key |-> "device_loan", category |-> "Personal", min_score |-> 500,
           amount_range |-> <<Rs(10000), Rs(100000)>>, interest_range |-> <<1200, 1800>>,
           tenure_range |-> <<3, 24>>, collateral |-> FALSE, subsidy |-> FALSE,
           eligibility_criteria |-> <<>>],
          [key |-> "startup_loan", category |-> "Business", min_score |-> 600,
           amount_range |-> <<Rs(100000), Rs(500000)>>,
           interest_range |-> <<1000, 1400>>, tenure_range |-> <<12, 60>>,
           collateral |-> FALSE, subsidy |-> TRUE,
           eligibility_criteria |-> <<"has_internship">>]
        >>,
      street_vendor |-> <<
          [key |-> "pm_svanidhi", category |-> "Micro Enterprise", min_score |-> 350,
           amount_range |-> <<Rs(10000), Rs(50000)>>, interest_range |-> <<0, 700>>,
           tenure_range |-> <<12, 12>>, collateral |-> FALSE, subsidy |-> TRUE,
           eligibility_criteria |-> <<"has_license">>],
          [key |-> "mudra_shishu", category |-> "Micro Enterprise", min_score |-> 400,
           amount_range |-> <<Rs(10000), Rs(50000)>>, interest_range |-> <<1000, 1400>>,
           tenure_range |-> <<12, 36>>, collateral |-> FALSE, subsidy |-> FALSE,
           eligibility_criteria |-> <<>>],
          [key |-> "mudra_kishore", category |-> "Micro Enterprise", min_score |-> 550,
           amount_range |-> <<Rs(50000), Rs(500000)>>, interest_range |-> <<1100, 1600>>,
           tenure_range |-> <<12, 60>>, collateral |-> FALSE, subsidy |-> FALSE,
           eligibility_criteria |-> <<"years_in_trade">>],
          [key |-> "cart_equipment", category |-> "Micro Enterprise", min_score |-> 450,
           amount_range |-> <<Rs(5000), Rs(100000)>>, interest_range |-> <<1200, 1800>>,
           tenure_range |-> <<6, 36>>, collateral |-> FALSE, subsidy |-> FALSE,
           eligibility_criteria |-> <<>>],
          [key |-> "working_capital_micro", category |-> "Micro Enterprise",
           min_score |-> 400, amount_range |-> <<Rs(5000), Rs(75000)>>,
           interest_range |-> <<1200, 2400>>, tenure_range |-> <<3, 12>>,
           collateral |-> FALSE, subsidy |-> FALSE, eligibility_criteria |-> <<>>]
        >>,
      homemaker |-> <<
          [key |-> "shg_loan", category |-> "Group Lending", min_score |-> 350,
           amount_range |-> <<Rs(10000), Rs(200000)>>, interest_range |-> <<400, 1200>>,
           tenure_range |-> <<12, 36>>, collateral |-> FALSE, subsidy |-> TRUE,
           eligibility_criteria |-> <<"is_shg_member">>],
          [key |-> "mudra_shishu_w", category |-> "Micro Enterprise", min_score |-> 400,
           amount_range |-> <<Rs(10000), Rs(50000)>>, interest_range |-> <<1000, 1400>>,
           tenure_range |-> <<12, 36>>, collateral |-> FALSE, subsidy |-> FALSE,
           eligibility_criteria |-> <<"has_enterprise">>],
          [key |-> "standup_india", category |-> "Enterprise", min_score |-> 550,
           amount_range |-> <<Rs(100000), Rs(10000000)>>,
           interest_range |-> <<800, 1200>>, tenure_range |-> <<36, 84>>,
           collateral |-> FALSE, subsidy |-> TRUE,
           eligibility_criteria |-> <<"has_enterprise">>],
          [key |-> "micro_enterprise_w", category |-> "Micro Enterprise",
           min_score |-> 500, amount_range |-> <<Rs(25000), Rs(200000)>>,
           interest_range |-> <<1200, 1800>>, tenure_range |-> <<12, 48>>,
           collateral |-> FALSE, subsidy |-> FALSE,
           eligibility_criteria |-> <<"has_enterprise">>],
          [key |-> "gold_loan_w", category |-> "Secured", min_score |-> 350,
           amount_range |-> <<Rs(5000), Rs(500000)>>, interest_range |-> <<700, 1200>>,
           tenure_range |-> <<3, 24>>, collateral |-> TRUE, subsidy |-> FALSE,
           eligibility_criteria |-> <<>>]
        >>,
      general_no_bank |-> <<
          [key |-> "mudra_shishu_g", category |-> "Micro Enterprise", min_score |-> 400,
           amount_range |-> <<Rs(10000), Rs(50000)>>, interest_range |-> <<1000, 1400>>,
           tenure_range |-> <<12, 36>>, collateral |-> FALSE, subsidy |-> FALSE,
           eligibility_criteria |-> <<>>],
          [key |-> "personal_micro", category |-> "Personal", min_score |-> 450,
           amount_range |-> <<Rs(5000), Rs(50000)>>, interest_range |-> <<1500, 2600>>,
           tenure_range |-> <<3, 12>>, collateral |-> FALSE, subsidy |-> FALSE,
           eligibility_criteria |-> <<>>],
          [key |-> "emergency_micro", category |-> "Emergency", min_score |-> 350,
           amount_range |-> <<Rs(1000), Rs(25000)>>, interest_range |-> <<1800, 3000>>,
           tenure_range |-> <<1, 6>>, collateral |-> FALSE, subsidy |-> FALSE,
           eligibility_criteria |-> <<>>],
          [key |-> "gold_loan_g", category |-> "Secured", min_score |-> 350,
           amount_range |-> <<Rs(5000), Rs(500000)>>, interest_range |-> <<700, 1200>>,
           tenure_range |-> <<3, 24>>, collateral |-> TRUE, subsidy |-> FALSE,
           eligibility_criteria |-> <<>>],
          [key |-> "jlg_loan", category |-> "Group Lending", min_score |-> 400,
           amount_range |-> <<Rs(10000), Rs(100000)>>, interest_range |-> <<1200, 1800>>,
           tenure_range |-> <<6, 24>>, collateral |-> FALSE, subsidy |-> FALSE,
           eligibility_criteria |-> <<"is_group_member">>]
        >> ]

(***************************************************************************)
(* EMI calculator                                                          *)
(***************************************************************************)
\* math.pow(1 + r, n) in fixed point, r = annual_rate / (12 * 100).
GrowthFactor(annual_rate, tenure_months) ==
    FixPow(MonthlyGrowth(annual_rate), tenure_months)

\* principal * r * F / (F - 1) for F = (1+r)^n, rounded to the paisa; the
\* product principal * r carries two guard digits below the paisa.
EmiFromGrowth(principal, annual_rate, F) ==
    (MulDiv(MulDiv(principal, annual_rate, 1200), F, F - PowScale) + 50) \div 100

calculate_emi(principal, annual_rate, tenure_months) ==
    IF principal <= 0 \/ tenure_months <= 0 THEN 0
    ELSE IF annual_rate <= 0 THEN MulDiv(principal, 1, tenure_months)
    ELSE EmiFromGrowth(principal, annual_rate,
                       GrowthFactor(annual_rate, tenure_months))

\* At a zero rate the instalment is principal / tenure_months unrounded, and
\* the instalments add up to the principal.
calculate_total_interest(principal, annual_rate, tenure_months) ==
    IF principal > 0 /\ tenure_months > 0 /\ annual_rate <= 0 THEN 0
    ELSE LET emi == calculate_emi(principal, annual_rate, tenure_months)
             total_paid == emi * tenure_months
         IN  total_paid - principal

\* The value calculate_emi returns, as paise + num / den of a paisa: the
\* zero-rate branch returns principal / tenure_months without rounding, the
\* other branches a whole number of paise.
EmiReturned(principal, annual_rate, tenure_months) ==
    IF principal > 0 /\ tenure_months > 0 /\ annual_rate <= 0
    THEN [paise |-> principal \div tenure_months, num |-> principal % tenure_months, den |-> tenure_months]
    ELSE [paise |-> calculate_emi(principal, annual_rate, tenure_months), num |-> 0, den |-> 1]

\* max_emi * (F - 1) / (r * F) for F = (1+r)^n; the quotient
\* max_emi * (F - 1) / F carries two guard digits below the paisa.
PrincipalFromGrowth(max_emi, annual_rate, F) ==
    MulDiv(MulDiv(max_emi * 100, F - PowScale, F), 1200, annual_rate)

max_loan_from_emi(max_emi, annual_rate, tenure_months) ==
    IF max_emi <= 0 \/ tenure_months <= 0 THEN 0
    ELSE IF annual_rate <= 0 THEN max_emi * tenure_months
    ELSE PrincipalFromGrowth(max_emi, annual_rate,
                             GrowthFactor(annual_rate, tenure_months))

\* A variant of LoanFromEmiReturned that drops what calculate_emi left below
\* the paisa
LoanFromEmiReturned_whole_paise(emi, annual_rate, tenure_months) ==
    max_loan_from_emi(emi.paise, annual_rate, tenure_months)

\* max_loan_from_emi applied to a value calculate_emi returned
LoanFromEmiReturned(emi, annual_rate, tenure_months) ==
    IF (emi.paise <= 0 /\ emi.num <= 0) \/ tenure_months <= 0 THEN 0
    ELSE IF annual_rate <= 0
    THEN emi.paise * tenure_months + (emi.num * tenure_months) \div emi.den
    ELSE max_loan_from_emi(emi.paise, annual_rate, tenure_months)

(***************************************************************************)
(* Repayment schedule.  The running balance is a float in the code; here   *)
(* it is carried in 1/SubPaise of a paisa and the entries are rounded to   *)
(* the paisa as the code rounds them.                                      *)
(***************************************************************************)
SubPaise == 100

months == <<"Jan", "Feb", "Mar", "Apr", "May", "Jun", "Jul", "Aug", "Sep", "Oct", "Nov", "Dec">>

\* round(x, 2) of an amount held in 1/SubPaise of a paisa
RoundFine(x) ==
    IF x >= 0 THEN (x + SubPaise \div 2) \div SubPaise
    ELSE 0 - ((SubPaise \div 2 - x) \div SubPaise)

\* balance * r with r = annual_rate / (12 * 100), annual_rate in basis points
InterestComponent(balance, annual_rate) ==
    IF annual_rate > 0 THEN MulDiv(balance, annual_rate, 120000) ELSE 0

\* The balance left after month i (counted from 0).  At a zero rate the EMI
\* is principal / tenure_months unrounded, so the balance is the exact share
\* of the principal still due.
BalanceAfter(i, balance, emi, interest, principal, annual_rate, tenure_months) ==
    IF annual_rate > 0 THEN Max2(balance - (emi * SubPaise - interest), 0)
    ELSE MulDiv(principal * SubPaise, tenure_months - i - 1, tenure_months)

\* One month of the loop: the entry as reported, and the unrounded balance
\* the next month starts from
ScheduleEntry(i, emi, interest, after) ==
    [month |-> <<months[(i % 12) + 1], 2026 + i \div 12>>,
     emi |-> emi,
     principal |-> RoundFine(emi * SubPaise - interest),
     interest |-> RoundFine(interest),
     balance |-> RoundFine(after),
     carried |-> after]

ScheduleMonth(i, balance, emi, interest, principal, annual_rate, tenure_months) ==
    ScheduleEntry(i, emi, interest,
                  BalanceAfter(i, balance, emi, interest, principal, annual_rate, tenure_months))

\* The months from..(to - 1) of the loop, entered with the given balance.  The
\* range is halved rather than walked so that 360 months do not nest 360
\* deep.
RECURSIVE ScheduleMonths(_, _, _, _, _, _, _)
ScheduleAfter(earlier, to, emi, principal, annual_rate, tenure_months) ==
    earlier \o ScheduleMonths(to - (to - earlier[1].index - Len(earlier)), to,
                              earlier[Len(earlier)].carried, emi, principal,
                              annual_rate, tenure_months)

ScheduleMonths(from, to, balance, emi, principal, annual_rate, tenure_months) ==
    IF from >= to THEN <<>>
    ELSE IF to = from + 1
    THEN <<[index |-> from] @@ ScheduleMonth(from, balance, emi, InterestComponent(balance, annual_rate), principal, annual_rate, tenure_months)>>
    ELSE ScheduleAfter(ScheduleMonths(from, from + (to - from) \div 2, balance, emi,
                                      principal, annual_rate, tenure_months),
                       to, emi, principal, annual_rate, tenure_months)

Reported(entry) ==
    [month |-> entry.month, emi |-> entry.emi, principal |-> entry.principal,
     interest |-> entry.interest, balance |-> entry.balance]

ReportedSchedule(schedule) == [i \in 1..Len(schedule) |-> Reported(schedule[i])]

generate_repayment_schedule(principal, annual_rate, tenure_months) ==
    IF principal <= 0 \/ tenure_months <= 0 THEN <<>>
    ELSE ReportedSchedule(ScheduleMonths(0, tenure_months, principal * SubPaise,
                              calculate_emi(principal, annual_rate, tenure_months),
                              principal, annual_rate, tenure_months))

(***************************************************************************)
(* Repayment capacity analysis                                             *)
(***************************************************************************)
\* A variant of NewEmiRoom in which existing EMIs add room
NewEmiRoom_emi_added(monthly_income, existing_emi, foir_cap) ==
    monthly_income * foir_cap + 100 * existing_emi

\* monthly_income * foir_cap - existing_emi, in 1/100 paise (foir_cap in percent)
NewEmiRoom(monthly_income, existing_emi, foir_cap) ==
    monthly_income * foir_cap - 100 * existing_emi

\* A variant of RepaymentVerdict that looks at the risk flags before the
\* micro-loan threshold
RepaymentVerdict_flags_first(new_emi_x100, risk_flags) ==
    IF new_emi_x100 <= 0 THEN "NOT_ELIGIBLE"
    ELSE IF Len(risk_flags) > 0 THEN "ELIGIBLE_WITH_CAUTION"
    ELSE IF new_emi_x100 < 100 * Rs(2000) THEN "MICRO_ONLY"
    ELSE "ELIGIBLE"

\* Verdict from the room for a new EMI (1/100 paise) and the risk flags
RepaymentVerdict(new_emi_x100, risk_flags) ==
    IF new_emi_x100 <= 0 THEN "NOT_ELIGIBLE"
    ELSE IF new_emi_x100 < 100 * Rs(2000) THEN "MICRO_ONLY"
    ELSE IF Len(risk_flags) > 0 THEN "ELIGIBLE_WITH_CAUTION"
    ELSE "ELIGIBLE"

analyze_repayment_capacity(monthly_income, monthly_expenses, existing_emi, foir_cap) ==
    IF monthly_income <= 0
    THEN [monthly_income |-> 0, monthly_expenses |-> monthly_expenses,
          existing_emi |-> existing_emi, disposable_income |-> 0,
          max_total_emi |-> 0, max_new_emi |-> 0, current_foir |-> 0,
          foir_limit |-> foir_cap, foir_headroom |-> 0,
          risk_flags |-> <<"Zero or negative income detected">>,
          verdict |-> "NOT_ELIGIBLE"]
    ELSE LET disposable == monthly_income - monthly_expenses
             new_emi_x100 == NewEmiRoom(monthly_income, existing_emi, foir_cap)
             max_total_emi == MulDiv(monthly_income, foir_cap, 100)
             \* existing_emi / monthly_income, in 1/10000 (round(x, 4))
             current_foir == MulDiv(existing_emi, 10000, monthly_income)
             f1 == IF 2 * existing_emi > monthly_income
                   THEN <<"Over-leveraged: Existing EMIs exceed 50% of income">>
                   ELSE <<>>
             f2 == IF 100 * existing_emi > foir_cap * monthly_income
                   THEN <<"FOIR exceeded">> ELSE <<>>
             f3 == IF 5 * disposable < monthly_income
                   THEN <<"Low disposable income: Less than 20% of earnings remain">>
                   ELSE <<>>
             f4 == IF existing_emi > 0 /\ new_emi_x100 < 100 * Rs(1000)
                   THEN <<"Very limited new EMI capacity">> ELSE <<>>
         IN  [monthly_income |-> monthly_income, monthly_expenses |-> monthly_expenses,
              existing_emi |-> existing_emi, disposable_income |-> disposable,
              max_total_emi |-> max_total_emi,
              max_new_emi |-> Max2(MulDiv(Max2(new_emi_x100, 0), 1, 100), 0),
              current_foir |-> current_foir, foir_limit |-> foir_cap,
              foir_headroom |-> Max2(foir_cap * 100 - current_foir, 0),
              risk_flags |-> f1 \o f2 \o f3 \o f4,
              verdict |-> RepaymentVerdict(new_emi_x100, f1 \o f2 \o f3 \o f4)]

(***************************************************************************)
(* Credit improvement path                                                 *)
(***************************************************************************)
\* tier_upgrades: current tier -> <<next tier, target score>>
tier_upgrades ==
    [very_poor |-> <<"poor", 400>>, poor |-> <<"fair", 500>>,
     fair |-> <<"good", 650>>, good |-> <<"excellent", 750>>]

\* The action bucket chosen by score, and whether the "only N points away"
\* line is put in front (gap <= 30).
_get_score_improvement_actions(score, gap) ==
    [bucket |-> IF score < Pts(450) THEN "below_450"
                ELSE IF score < Pts(600) THEN "below_600"
                ELSE IF score < Pts(750) THEN "below_750"
                ELSE "none",
     points_away |-> gap <= Pts(30)]

RECURSIVE FlagEntries(_, _)
FlagEntries(flags, i) ==
    IF i > Len(flags) THEN <<>>
    ELSE <<[type |-> "financial_health", title |-> flags[i]]>> \o FlagEntries(flags, i + 1)

_get_credit_improvement_path(score, tier, repayment) ==
    LET current_tier_key == tier.tier_key
        upgrade ==
            IF current_tier_key \in DOMAIN tier_upgrades
            THEN LET target_score == tier_upgrades[current_tier_key][2]
                     gap == Pts(target_score) - score
                 IN  <<[type |-> "score_upgrade", target_score |-> target_score,
                        gap |-> gap, next_tier |-> tier_upgrades[current_tier_key][1],
                        actions |-> _get_score_improvement_actions(score, gap)]>>
            ELSE <<>>
        maintenance ==
            IF current_tier_key = "excellent"
            THEN <<[type |-> "maintenance", title |-> "Maintain your excellent score"]>>
            ELSE <<>>
    IN  upgrade \o FlagEntries(repayment.risk_flags, 1) \o maintenance

(***************************************************************************)
(* Transaction-based recommendations                                       *)
(***************************************************************************)
\* A variant of _check_transaction_loan_eligibility without the income gate
_check_transaction_loan_eligibility_no_income(loan, score, income, tier, repayment) ==
    LET r1 == IF score < Pts(loan.min_score)
              THEN <<"Score below minimum">> ELSE <<>>
        r3 == IF repayment.verdict = "NOT_ELIGIBLE"
              THEN <<"Repayment capacity insufficient">> ELSE <<>>
        r4 == IF tier.max_simultaneous_loans = 0
              THEN <<"Score too low for any loans">> ELSE <<>>
    IN  [eligible |-> Len(r1 \o r3 \o r4) = 0, reasons |-> r1 \o r3 \o r4]

_check_transaction_loan_eligibility(loan, score, income, tier, repayment) ==
    LET r1 == IF score < Pts(loan.min_score)
              THEN <<"Score below minimum">> ELSE <<>>
        r2 == IF income < loan.min_income
              THEN <<"Income below minimum">> ELSE <<>>
        r3 == IF repayment.verdict = "NOT_ELIGIBLE"
              THEN <<"Repayment capacity insufficient">> ELSE <<>>
        r4 == IF tier.max_simultaneous_loans = 0
              THEN <<"Score too low for any loans">> ELSE <<>>
        reasons == r1 \o r2 \o r3 \o r4
    IN  [eligible |-> Len(reasons) = 0, reasons |-> reasons]

\* effective_rate of _build_loan_detail: the loan's own range, by score bucket.
TransactionRate(loan, score) ==
    LET loan_rate_low == loan.interest_range[1]
        loan_rate_high == loan.interest_range[2]
    IN  IF score >= Pts(750) THEN loan_rate_low
        ELSE IF score >= Pts(650)
             THEN loan_rate_low + MulDiv(loan_rate_high - loan_rate_low, 3, 10)
        ELSE IF score >= Pts(500)
             THEN loan_rate_low + MulDiv(loan_rate_high - loan_rate_low, 6, 10)
        ELSE loan_rate_high

\* The detail record, from the amounts computed by _build_loan_detail
LoanDetail(loan_key, loan, eligibility, effective_rate, max_loan, recommended, suggested_tenure, emi, total_interest, market_interest) ==
    [key |-> loan_key, category |-> loan.category,
     eligible |-> eligibility.eligible, reasons |-> eligibility.reasons,
     effective_rate |-> effective_rate,
     max_loan_amount |-> Round0(max_loan),
     recommended_amount |-> Round0(recommended),
     min_amount |-> loan.amount_range[1], emi |-> emi,
     suggested_tenure |-> suggested_tenure, tenure_range |-> loan.tenure_range,
     total_interest |-> total_interest,
     interest_saved_via_subsidy |->
         Round0(IF loan.subsidy THEN Max2(market_interest - total_interest, 0)
                ELSE 0),
     collateral_required |-> loan.collateral, subsidy |-> loan.subsidy]

\* EMI and interest of the recommended amount; market_rate is the rate
\* without the subsidy
LoanDetailCosts(loan_key, loan, eligibility, effective_rate, market_rate, max_loan, recommended, suggested_tenure) ==
    LoanDetail(loan_key, loan, eligibility, effective_rate, max_loan, recommended,
        suggested_tenure,
        calculate_emi(recommended, effective_rate, suggested_tenure),
        calculate_total_interest(recommended, effective_rate, suggested_tenure),
        IF loan.subsidy
        THEN calculate_total_interest(recommended, market_rate, suggested_tenure)
        ELSE 0)

\* suggested_tenure of _build_loan_detail
TransactionTenure(loan, tier) ==
    IF Min2(loan.tenure_range[2], tier.max_tenure_months) = 0
       /\ loan.tenure_range[2] > 0
    THEN loan.tenure_range[1]
    ELSE Min2(loan.tenure_range[2], tier.max_tenure_months)

\* max_loan of _build_loan_detail
TransactionMaxLoan(max_amount_by_income, max_amount_by_product, max_amount_by_emi) ==
    Max2(Min2(Min2(max_amount_by_income, max_amount_by_product),
              max_amount_by_emi), 0)

\* The detail once max_loan is known; the recommended amount is 80% of it
LoanDetailForMax(loan_key, loan, tier, eligibility, effective_rate, max_loan) ==
    LoanDetailCosts(loan_key, loan, eligibility, effective_rate,
        effective_rate + 400, max_loan,
        Max2(Min2(MulDiv(max_loan, 4, 5), loan.amount_range[2]), 0),
        TransactionTenure(loan, tier))

\* The detail once effective_rate is known
LoanDetailForRate(loan_key, loan, income, tier, repayment, eligibility, effective_rate) ==
    LoanDetailForMax(loan_key, loan, tier, eligibility, effective_rate,
        TransactionMaxLoan(income * tier.max_exposure_multiplier,
            loan.amount_range[2],
            IF repayment.max_new_emi > 0
            THEN max_loan_from_emi(repayment.max_new_emi, effective_rate,
                     (loan.tenure_range[1] + loan.tenure_range[2]) \div 2)
            ELSE 0))

_build_loan_detail(loan_key, loan, score, income, tier, repayment, eligibility) ==
    LoanDetailForRate(loan_key, loan, income, tier, repayment, eligibility,
                      TransactionRate(loan, score))

\* list.sort(key=max_loan_amount, reverse=True): stable, largest first.
RECURSIVE InsertByAmount(_, _)
InsertByAmount(sorted, d) ==
    IF Len(sorted) = 0 THEN <<d>>
    ELSE IF Head(sorted).max_loan_amount >= d.max_loan_amount
         THEN <<Head(sorted)>> \o InsertByAmount(Tail(sorted), d)
         ELSE <<d>> \o sorted

RECURSIVE SortByAmountDesc(_, _, _)
SortByAmountDesc(details, i, acc) ==
    IF i > Len(details) THEN acc
    ELSE SortByAmountDesc(details, i + 1, InsertByAmount(acc, details[i]))

\* The bundle returned, from the eligible and the ineligible details
TransactionBundle(score, monthly_income, tier, repayment, eligible_loans, ineligible_loans) ==
    [score |-> score, tier |-> tier, repayment_capacity |-> repayment,
     eligible_loans |-> eligible_loans, ineligible_loans |-> ineligible_loans,
     max_simultaneous_loans |-> tier.max_simultaneous_loans,
     total_eligible |-> Len(eligible_loans),
     max_total_exposure |-> monthly_income * tier.max_exposure_multiplier,
     pre_approval_status |-> tier.pre_approval,
     improvement_path |-> _get_credit_improvement_path(score, tier, repayment),
     source |-> "transaction"]

\* The details split into eligible (sorted by amount) and ineligible
TransactionSplit(score, monthly_income, tier, repayment, details) ==
    TransactionBundle(score, monthly_income, tier, repayment,
        SortByAmountDesc(SelectSeq(details, LAMBDA d : d.eligible), 1, <<>>),
        SelectSeq(details, LAMBDA d : ~d.eligible))

\* One detail per product of TRANSACTION_LOANS, in catalog order
TransactionDetails(score, monthly_income, tier, repayment) ==
    TransactionSplit(score, monthly_income, tier, repayment,
        [i \in 1..Len(TRANSACTION_LOANS) |->
            _build_loan_detail(TRANSACTION_LOANS[i].key, TRANSACTION_LOANS[i],
                score, monthly_income, tier, repayment,
                _check_transaction_loan_eligibility(TRANSACTION_LOANS[i], score,
                    monthly_income, tier, repayment))])

TransactionForTier(score, monthly_income, monthly_expenses, existing_emi, tier) ==
    TransactionDetails(score, monthly_income, tier,
        analyze_repayment_capacity(monthly_income, monthly_expenses, existing_emi,
                                   tier.foir_cap))

get_transaction_loan_recommendations(score, monthly_income, monthly_expenses, existing_emi) ==
    TransactionForTier(score, monthly_income, monthly_expenses, existing_emi,
                       get_score_tier(score))

(***************************************************************************)
(* persona_data: a dict from field name to a value.  A value carries its   *)
(* Python type: bool (v = 0 or 1), num (v in hundredths) or str (v the     *)
(* text).  A missing key reads as None.                                    *)
(***************************************************************************)
BoolVal(b) == [t |-> "bool", v |-> IF b THEN 1 ELSE 0]
NumVal(hundredths) == [t |-> "num", v |-> hundredths]
StrVal(s) == [t |-> "str", v |-> s]
NoneVal == [t |-> "none", v |-> 0]
EmptyDict == [k \in {} |-> NoneVal]

\* data.get(key, default)
DictGet(data, key, default) == IF key \in DOMAIN data THEN data[key] ELSE default

\* float(x) of a bool or a number, in hundredths
FloatOf(val) == IF val.t = "bool" THEN 100 * val.v ELSE val.v

\* int(x) of a bool or a non-negative number
IntOf(val) == IF val.t = "bool" THEN val.v ELSE val.v \div 100

\* val and val not in (False, 0, "", "0", "none")
CriterionMet(val) ==
    CASE val.t = "none" -> FALSE
      [] val.t = "bool" -> val.v = 1
      [] val.t = "num" -> val.v # 0
      [] val.t = "str" -> val.v \notin {"", "0", "none"}

(***************************************************************************)
(* Persona-based recommendations                                           *)
(***************************************************************************)
_estimate_income_from_persona(persona, data) ==
    IF persona = "farmer"
    THEN LET acres == FloatOf(DictGet(data, "land_acres", NumVal(200)))
             seasons == IntOf(DictGet(data, "crops_per_year", NumVal(200)))
         IN  acres * 1500 * seasons          \* acres * 18000 * seasons / 12
    ELSE IF persona = "student"
    THEN LET part_time == FloatOf(DictGet(data, "monthly_earnings", NumVal(0)))
             scholarship ==
                 MulDiv(FloatOf(DictGet(data, "total_scholarship_value", NumVal(0))), 1, 12)
         IN  Max2(part_time + scholarship, Rs(5000))
    ELSE IF persona = "street_vendor"
    THEN LET daily == FloatOf(DictGet(data, "avg_daily_income", NumVal(Rs(500))))
             days == IntOf(DictGet(data, "working_days_per_month", NumVal(2500)))
         IN  daily * days
    ELSE IF persona = "homemaker"
    THEN LET hh_income == FloatOf(DictGet(data, "household_income", NumVal(Rs(15000))))
             enterprise_rev == FloatOf(DictGet(data, "monthly_revenue", NumVal(0)))
         IN  hh_income + enterprise_rev
    ELSE IF persona = "general_no_bank"
    THEN LET rent == FloatOf(DictGet(data, "rent_amount", NumVal(Rs(2000))))
         IN  Max2(MulDiv(rent, 7, 2), Rs(8000))
    ELSE Rs(10000)

_check_persona_loan_eligibility(loan, score, data, tier) ==
    LET r1 == IF score < Pts(loan.min_score)
              THEN <<"Score below minimum">> ELSE <<>>
        r2 == IF tier.max_simultaneous_loans = 0
              THEN <<"Score too low for any loans">> ELSE <<>>
        criteria_met ==
            SelectSeq(loan.eligibility_criteria,
                      LAMBDA c : CriterionMet(DictGet(data, c, NoneVal)))
        criteria_not_met ==
            SelectSeq(loan.eligibility_criteria,
                      LAMBDA c : ~CriterionMet(DictGet(data, c, NoneVal)))
        r3 == IF Len(criteria_not_met) > 0 THEN <<"Missing data for">> ELSE <<>>
    IN  [eligible |-> Len(r1 \o r2) = 0, reasons |-> r1 \o r2 \o r3,
         criteria_met |-> criteria_met, criteria_not_met |-> criteria_not_met]

\* effective_rate of _build_persona_loan_detail
PersonaRate(loan, score) ==
    LET loan_rate_low == loan.interest_range[1]
        loan_rate_high == loan.interest_range[2]
    IN  IF score >= Pts(700) THEN loan_rate_low
        ELSE IF score >= Pts(550)
             THEN loan_rate_low + MulDiv(loan_rate_high - loan_rate_low, 2, 5)
        ELSE loan_rate_high

\* The detail record, from the amounts computed by _build_persona_loan_detail
PersonaLoanDetail(loan_key, loan, eligibility, effective_rate, max_amount, recommended, suggested_tenure, emi, total_interest, market_interest) ==
    [key |-> loan_key, category |-> loan.category,
     eligible |-> eligibility.eligible, reasons |-> eligibility.reasons,
     criteria_met |-> eligibility.criteria_met,
     criteria_not_met |-> eligibility.criteria_not_met,
     effective_rate |-> effective_rate,
     max_loan_amount |-> Round0(max_amount),
     recommended_amount |-> Round0(recommended),
     min_amount |-> loan.amount_range[1], emi |-> emi,
     suggested_tenure |-> suggested_tenure, tenure_range |-> loan.tenure_range,
     total_interest |-> total_interest,
     interest_saved_via_subsidy |->
         Round0(IF loan.subsidy THEN Max2(market_interest - total_interest, 0)
                ELSE 0),
     collateral_required |-> loan.collateral, subsidy |-> loan.subsidy]

\* EMI and interest of the recommended amount; market_rate is the rate
\* without the subsidy
PersonaLoanDetailCosts(loan_key, loan, eligibility, effective_rate, market_rate, max_amount, recommended, suggested_tenure) ==
    PersonaLoanDetail(loan_key, loan, eligibility, effective_rate, max_amount,
        recommended, suggested_tenure,
        calculate_emi(recommended, effective_rate, suggested_tenure),
        calculate_total_interest(recommended, effective_rate, suggested_tenure),
        IF loan.subsidy
        THEN calculate_total_interest(recommended, market_rate, suggested_tenure)
        ELSE 0)

\* suggested_tenure of _build_persona_loan_detail
PersonaTenure(loan, tier) ==
    IF tier.max_tenure_months > 0
    THEN (IF Min2(loan.tenure_range[2], tier.max_tenure_months) = 0
          THEN loan.tenure_range[1]
          ELSE Min2(loan.tenure_range[2], tier.max_tenure_months))
    ELSE (IF loan.tenure_range[2] = 0 THEN loan.tenure_range[1]
          ELSE loan.tenure_range[2])

\* max_amount of _build_persona_loan_detail
PersonaMaxAmount(loan, income, income_cap) ==
    IF income > 0 /\ income_cap > 0 /\ income_cap < loan.amount_range[2]
    THEN income_cap ELSE loan.amount_range[2]

\* The detail once max_amount is known; the recommended amount is 60% of it,
\* never below the product minimum
PersonaLoanDetailForMax(loan_key, loan, tier, eligibility, effective_rate, max_amount) ==
    PersonaLoanDetailCosts(loan_key, loan, eligibility, effective_rate,
        effective_rate + 500, max_amount,
        Max2(Min2(MulDiv(max_amount, 3, 5), loan.amount_range[2]),
             loan.amount_range[1]),
        PersonaTenure(loan, tier))

_build_persona_loan_detail(loan_key, loan, score, income, tier, repayment, eligibility) ==
    PersonaLoanDetailForMax(loan_key, loan, tier, eligibility,
        PersonaRate(loan, score),
        PersonaMaxAmount(loan, income, income * tier.max_exposure_multiplier))

\* PERSONA_LOANS.get(persona, PERSONA_LOANS["general_no_bank"])
PersonaCatalog(persona) ==
    IF persona \in DOMAIN PERSONA_LOANS THEN PERSONA_LOANS[persona]
    ELSE PERSONA_LOANS["general_no_bank"]

\* The bundle returned, from the eligible and the ineligible details
PersonaBundle(persona, score, income, tier, repayment, eligible_loans, ineligible_loans) ==
    [score |-> score, persona |-> persona, tier |-> tier,
     repayment_capacity |-> repayment,
     eligible_loans |-> eligible_loans, ineligible_loans |-> ineligible_loans,
     max_simultaneous_loans |-> tier.max_simultaneous_loans,
     total_eligible |-> Len(eligible_loans),
     estimated_monthly_income |-> Round0(income),
     pre_approval_status |-> tier.pre_approval,
     improvement_path |-> _get_credit_improvement_path(score, tier, repayment),
     source |-> "alternative_profile"]

\* The details split into eligible (sorted by amount) and ineligible
PersonaSplit(persona, score, income, tier, repayment, details) ==
    PersonaBundle(persona, score, income, tier, repayment,
        SortByAmountDesc(SelectSeq(details, LAMBDA d : d.eligible), 1, <<>>),
        SelectSeq(details, LAMBDA d : ~d.eligible))

\* One detail per product of the persona's catalog, in catalog order
PersonaDetails(persona, score, persona_data, income, tier, repayment, persona_loan_catalog) ==
    PersonaSplit(persona, score, income, tier, repayment,
        [i \in 1..Len(persona_loan_catalog) |->
            _build_persona_loan_detail(persona_loan_catalog[i].key,
                persona_loan_catalog[i], score, income, tier, repayment,
                _check_persona_loan_eligibility(persona_loan_catalog[i], score,
                                                persona_data, tier))])

PersonaForIncome(persona, score, persona_data, income, tier) ==
    PersonaDetails(persona, score, persona_data, income, tier,
        analyze_repayment_capacity(income, 0, 0, tier.foir_cap),
        PersonaCatalog(persona))

get_persona_loan_recommendations(persona, score, persona_data, monthly_income) ==
    PersonaForIncome(persona, score, persona_data,
        IF monthly_income <= 0
        THEN _estimate_income_from_persona(persona, persona_data)
        ELSE monthly_income,
        get_score_tier(score))

(***************************************************************************)
(* Single-loan eligibility check                                           *)
(*                                                                         *)
(* A reason is kept as its check and the probe words its text contains:    *)
(* the verdict is decided by searching reasons_fail for "Score", "below",  *)
(* "income" (case-insensitively), "Loan Tier" and "Very Poor".             *)
(***************************************************************************)
Reason(check, subject, words) == [check |-> check, subject |-> subject, words |-> words]

\* Probe words in criterion.replace("_", " ").title()
CriterionLabelWords(criterion) == IF criterion = "score_value" THEN {"Score"} ELSE {}

\* dict.get(loan_key) on a catalog: the loans with that key (none or one)
CatalogGet(catalog, loan_key) == SelectSeq(catalog, LAMBDA l : l.key = loan_key)

\* A variant of ResolveLoan that reads every source other than a persona
\* one as the transaction catalog
ResolveLoan_transaction_otherwise(loan_key, source, persona) ==
    IF source = "persona" /\ persona # ""
    THEN IF persona \in DOMAIN PERSONA_LOANS
         THEN CatalogGet(PERSONA_LOANS[persona], loan_key) ELSE <<>>
    ELSE CatalogGet(TRANSACTION_LOANS, loan_key)

\* Loan lookup of check_loan_eligibility
ResolveLoan(loan_key, source, persona) ==
    IF source = "transaction" THEN CatalogGet(TRANSACTION_LOANS, loan_key)
    ELSE IF source = "persona" /\ persona # ""
    THEN IF persona \in DOMAIN PERSONA_LOANS
         THEN CatalogGet(PERSONA_LOANS[persona], loan_key) ELSE <<>>
    ELSE <<>>

\* loan.get("min_income", 0)
LoanMinIncome(loan) == IF "min_income" \in DOMAIN loan THEN loan.min_income ELSE 0

\* loan.get("eligibility_criteria", [])
LoanCriteria(loan) ==
    IF "eligibility_criteria" \in DOMAIN loan THEN loan.eligibility_criteria ELSE <<>>

Gap(check, difficulty) == [check |-> check, difficulty |-> difficulty]

RECURSIVE CriteriaReasons(_, _, _, _)
CriteriaReasons(criteria, persona_data, i, met) ==
    IF i > Len(criteria) THEN <<>>
    ELSE (IF CriterionMet(DictGet(persona_data, criteria[i], NoneVal)) = met
          THEN <<Reason("criteria", criteria[i],
                        IF met THEN {} ELSE CriterionLabelWords(criteria[i]))>>
          ELSE <<>>)
         \o CriteriaReasons(criteria, persona_data, i + 1, met)

RECURSIVE ImprovementSteps(_, _)
ImprovementSteps(gap_analysis, i) ==
    IF i > Len(gap_analysis) THEN <<>>
    ELSE LET check == gap_analysis[i].check
             steps ==
                 CASE check = "Credit Score" ->
                        <<"Improve score", "Use Score Builder page">>
                   [] check = "Monthly Income" ->
                        <<"Increase income", "Upload 6-month bank statement">>
                   [] check = "Loan Tier Access" ->
                        <<"Pay utility bills on time", "Register Aadhaar + PAN",
                          "Join an SHG or JLG group">>
                   [] check = "Repayment Capacity" ->
                        <<"Reduce existing loan EMIs", "Reduce monthly fixed expenses",
                          "Increase income before applying">>
                   [] check = "Loan Amount" ->
                        <<"Apply for a lower amount", "Improve score / income">>
                   [] check = "EMI Affordability" ->
                        <<"Choose a longer tenure", "Apply for a smaller amount",
                          "Pay off existing EMIs">>
                   [] OTHER -> <<>>
         IN  steps \o ImprovementSteps(gap_analysis, i + 1)

\* A variant of EligibilityVerdict that looks for remaining fail reasons
\* before the micro-loan verdict
EligibilityVerdict_caution_first(reasons_fail, repayment) ==
    IF \E i \in 1..Len(reasons_fail) : "Very Poor" \in reasons_fail[i].words
    THEN "NOT_ELIGIBLE"
    ELSE IF \E i \in 1..Len(reasons_fail) : "below" \in reasons_fail[i].words
    THEN "NOT_ELIGIBLE"
    ELSE IF repayment.verdict = "NOT_ELIGIBLE" THEN "NOT_ELIGIBLE"
    ELSE IF Len(reasons_fail) > 0 THEN "ELIGIBLE_WITH_CAUTION"
    ELSE IF repayment.verdict = "MICRO_ONLY" THEN "MICRO_ONLY"
    ELSE "ELIGIBLE"

\* Overall verdict from the failed checks and the repayment verdict
EligibilityVerdict(reasons_fail, repayment) ==
    LET has_score_fail ==
            \E i \in 1..Len(reasons_fail) : {"Score", "below"} \subseteq reasons_fail[i].words
        has_income_fail ==
            \E i \in 1..Len(reasons_fail) : {"income", "below"} \subseteq reasons_fail[i].words
        has_tier_fail ==
            \E i \in 1..Len(reasons_fail) :
                "Loan Tier" \in reasons_fail[i].words \/ "Very Poor" \in reasons_fail[i].words
    IN  IF has_tier_fail THEN "NOT_ELIGIBLE"
        ELSE IF has_score_fail /\ has_income_fail THEN "NOT_ELIGIBLE"
        ELSE IF has_score_fail \/ has_income_fail THEN "NOT_ELIGIBLE"
        ELSE IF repayment.verdict = "NOT_ELIGIBLE" THEN "NOT_ELIGIBLE"
        ELSE IF repayment.verdict = "MICRO_ONLY" THEN "MICRO_ONLY"
        ELSE IF Len(reasons_fail) > 0 THEN "ELIGIBLE_WITH_CAUTION"
        ELSE "ELIGIBLE"

\* Maximum eligible amount (before rounding for display)
MaxAmountOf(max_by_product, max_by_income, max_by_emi) ==
    Max2(IF max_by_emi > 0
         THEN Min2(Min2(max_by_product, max_by_income), max_by_emi)
         ELSE Min2(max_by_product, max_by_income), 0)

CheckMaxAmount(loan, tier, score, monthly_income, repayment, desired_tenure) ==
    MaxAmountOf(loan.amount_range[2],
        IF monthly_income > 0 THEN monthly_income * tier.max_exposure_multiplier
        ELSE loan.amount_range[2],
        IF repayment.max_new_emi > 0
        THEN max_loan_from_emi(repayment.max_new_emi, TransactionRate(loan, score),
                 IF desired_tenure > 0 THEN desired_tenure
                 ELSE (loan.tenure_range[1] + loan.tenure_range[2]) \div 2)
        ELSE 0)

\* The loan_details record
CheckDetailsRecord(loan, effective_rate, max_amount, actual_amount, actual_tenure, emi, total_interest, desired_amount) ==
    [effective_rate |-> effective_rate,
     max_eligible_amount |-> Round0(max_amount),
     actual_amount |-> Round0(actual_amount),
     actual_tenure_months |-> actual_tenure,
     emi |-> emi, total_interest |-> total_interest,
     total_payable |-> actual_amount + total_interest,
     collateral_required |-> loan.collateral, subsidy |-> loan.subsidy,
     amount_ok |-> ~(desired_amount > 0 /\ desired_amount > max_amount)]

\* EMI and interest of the actual amount over the actual tenure
CheckDetailsCosts(loan, effective_rate, max_amount, actual_amount, actual_tenure, desired_amount) ==
    CheckDetailsRecord(loan, effective_rate, max_amount, actual_amount,
        actual_tenure,
        calculate_emi(actual_amount, effective_rate, actual_tenure),
        calculate_total_interest(actual_amount, effective_rate, actual_tenure),
        desired_amount)

\* desired_tenure or the product's longest tenure, within the tier's limit
CheckTenureWanted(loan, tier, tenure0) ==
    IF tier.max_tenure_months > 0 THEN Min2(tenure0, tier.max_tenure_months)
    ELSE tenure0

\* actual_tenure: the tenure wanted, clamped to the product's tenure range
CheckTenure(loan, tier, desired_tenure) ==
    Min2(Max2(CheckTenureWanted(loan, tier,
                  IF desired_tenure > 0 THEN desired_tenure
                  ELSE loan.tenure_range[2]),
              loan.tenure_range[1]),
         loan.tenure_range[2])

\* The details once max_amount is known: the desired amount if it is within
\* the maximum, else 80% of the maximum
CheckDetailsForMax(loan, tier, effective_rate, max_amount, desired_amount, desired_tenure) ==
    CheckDetailsCosts(loan, effective_rate, max_amount,
        Max2(IF 0 < desired_amount /\ desired_amount <= max_amount
             THEN desired_amount
             ELSE Min2(MulDiv(max_amount, 4, 5), loan.amount_range[2]), 0),
        CheckTenure(loan, tier, desired_tenure), desired_amount)

\* Loan details, computed when the verdict is not NOT_ELIGIBLE
CheckLoanDetails(loan, tier, score, monthly_income, repayment, desired_amount, desired_tenure) ==
    CheckDetailsForMax(loan, tier, TransactionRate(loan, score),
        CheckMaxAmount(loan, tier, score, monthly_income, repayment,
                       desired_tenure),
        desired_amount, desired_tenure)

\* Steps 1-5: the checks that passed, the checks that failed, the gaps
CheckReasons(loan, source, score, income, tier, repayment, persona_data) ==
    LET score_ok == score >= Pts(loan.min_score)
        income_checked == source = "transaction" /\ LoanMinIncome(loan) > 0
        income_ok == income >= LoanMinIncome(loan)
        tier_ok == tier.max_simultaneous_loans > 0
        repay_ok == repayment.verdict # "NOT_ELIGIBLE"
    IN  [reasons_pass |->
            (IF score_ok THEN <<Reason("score", "", {})>> ELSE <<>>)
         \o (IF income_checked /\ income_ok THEN <<Reason("income", "", {})>> ELSE <<>>)
         \o (IF tier_ok THEN <<Reason("tier", "", {})>> ELSE <<>>)
         \o (IF repay_ok THEN <<Reason("repayment", repayment.verdict, {})>> ELSE <<>>)
         \o CriteriaReasons(LoanCriteria(loan), persona_data, 1, TRUE),
         reasons_fail |->
            (IF ~score_ok THEN <<Reason("score", "", {"Score", "below"})>> ELSE <<>>)
         \o (IF income_checked /\ ~income_ok
             THEN <<Reason("income", "", {"income", "below"})>> ELSE <<>>)
         \o (IF ~tier_ok THEN <<Reason("tier", "", {"Score", "Very Poor"})>> ELSE <<>>)
         \o (IF ~repay_ok THEN <<Reason("repayment", "", {"income"})>> ELSE <<>>)
         \o CriteriaReasons(LoanCriteria(loan), persona_data, 1, FALSE),
         gap_analysis |->
            (IF ~score_ok
             THEN <<Gap("Credit Score",
                        IF Pts(loan.min_score) - score <= Pts(50)
                        THEN "Medium" ELSE "Hard")>>
             ELSE <<>>)
         \o (IF income_checked /\ ~income_ok
             THEN <<Gap("Monthly Income", "Hard")>> ELSE <<>>)
         \o (IF ~tier_ok THEN <<Gap("Loan Tier Access", "Hard")>> ELSE <<>>)
         \o (IF ~repay_ok THEN <<Gap("Repayment Capacity", "Hard")>> ELSE <<>>)]

\* The improvement steps returned with the result
FinalSteps(gap_analysis, eligible, verdict) ==
    IF eligible /\ verdict = "ELIGIBLE"
    THEN <<"You are fully eligible!", "Compare rates across lenders">>
    ELSE IF Len(gap_analysis) = 0 /\ ~eligible
    THEN <<"Improve your credit score and income">>
    ELSE ImprovementSteps(gap_analysis, 1)

\* A variant of AdjustVerdict that refuses an applicant asking for too much
AdjustVerdict_refuse(verdict1, amount_exceeds) ==
    IF amount_exceeds THEN "NOT_ELIGIBLE" ELSE verdict1

\* A desired amount above the maximum turns ELIGIBLE into ELIGIBLE_WITH_CAUTION
AdjustVerdict(verdict1, amount_exceeds) ==
    IF amount_exceeds /\ verdict1 = "ELIGIBLE" THEN "ELIGIBLE_WITH_CAUTION"
    ELSE verdict1

\* The amount and EMI checks made once the loan details are computed, and
\* the result returned
CheckOutcome(loan_key, loan, source, persona, score, tier, repayment, checks, verdict1, loan_details) ==
    LET has_details == "amount_ok" \in DOMAIN loan_details
        amount_exceeds == has_details /\ ~loan_details.amount_ok
        emi_exceeds == has_details /\ loan_details.emi > repayment.max_new_emi
                          /\ repayment.max_new_emi > 0
        late_gaps ==
               (IF amount_exceeds THEN <<Gap("Loan Amount", "Medium")>> ELSE <<>>)
            \o (IF emi_exceeds THEN <<Gap("EMI Affordability", "Medium")>> ELSE <<>>)
        eligible == Len(checks.reasons_fail) = 0 /\ ~amount_exceeds
        verdict == AdjustVerdict(verdict1, amount_exceeds)
    IN  [eligible |-> eligible, verdict |-> verdict, loan_name |-> loan_key,
         loan_category |-> loan.category, source |-> source, persona |-> persona,
         score_used |-> score, tier |-> tier.grade,
         reasons_pass |-> checks.reasons_pass,
         reasons_fail |->
               checks.reasons_fail
            \o (IF amount_exceeds THEN <<Reason("amount", "", {})>> ELSE <<>>)
            \o (IF emi_exceeds THEN <<Reason("emi", "", {})>> ELSE <<>>),
         gap_analysis |-> checks.gap_analysis \o late_gaps,
         loan_details |-> loan_details,
         improvement_steps |->
             FinalSteps(checks.gap_analysis \o late_gaps, eligible, verdict),
         repayment_capacity |-> repayment]

\* The call once the first verdict is known
CheckForVerdict(loan_key, loan, source, persona, score, tier, income, repayment, checks, verdict1, desired_amount, desired_tenure) ==
    CheckOutcome(loan_key, loan, source, persona, score, tier, repayment,
        checks, verdict1,
        IF verdict1 \in {"ELIGIBLE", "ELIGIBLE_WITH_CAUTION", "MICRO_ONLY"}
        THEN CheckLoanDetails(loan, tier, score, income, repayment,
                              desired_amount, desired_tenure)
        ELSE EmptyDict)

\* The call once the checks are made
CheckForReasons(loan_key, loan, source, persona, score, tier, income, repayment, checks, desired_amount, desired_tenure) ==
    CheckForVerdict(loan_key, loan, source, persona, score, tier, income,
        repayment, checks, EligibilityVerdict(checks.reasons_fail, repayment),
        desired_amount, desired_tenure)

\* The call once the repayment capacity is analysed
CheckForRepayment(loan_key, loan, source, persona, score, tier, income, repayment, persona_data, desired_amount, desired_tenure) ==
    CheckForReasons(loan_key, loan, source, persona, score, tier, income,
        repayment,
        CheckReasons(loan, source, score, income, tier, repayment, persona_data),
        desired_amount, desired_tenure)

\* The call once the loan is found
CheckFoundLoan(loan_key, loan, source, persona, score, tier, income, monthly_expenses, existing_emi, persona_data, desired_amount, desired_tenure) ==
    CheckForRepayment(loan_key, loan, source, persona, score, tier, income,
        analyze_repayment_capacity(income, monthly_expenses, existing_emi,
                                   tier.foir_cap),
        persona_data, desired_amount, desired_tenure)

\* Income used by check_loan_eligibility: estimated for a persona when none is given
CheckIncome(source, persona, monthly_income, persona_data) ==
    IF monthly_income <= 0 /\ source = "persona" /\ persona # ""
    THEN _estimate_income_from_persona(persona, persona_data)
    ELSE monthly_income

check_loan_eligibility(loan_key, source, persona, score, monthly_income, monthly_expenses, existing_emi, persona_data, desired_amount, desired_tenure) ==
    IF Len(ResolveLoan(loan_key, source, persona)) = 0
    THEN [eligible |-> FALSE, verdict |-> "LOAN_NOT_FOUND", loan_name |-> loan_key,
          reasons_pass |-> <<>>,
          reasons_fail |-> <<Reason("not_found", loan_key, {})>>,
          gap_analysis |-> <<>>, loan_details |-> EmptyDict,
          improvement_steps |-> <<>>]
    ELSE CheckFoundLoan(loan_key, ResolveLoan(loan_key, source, persona)[1],
             source, persona, score, get_score_tier(score),
             CheckIncome(source, persona, monthly_income, persona_data),
             monthly_expenses, existing_emi, persona_data, desired_amount,
             desired_tenure)

(***************************************************************************)
(* Inputs                                                                  *)
(***************************************************************************)
MaxScores == 7
MaxIncomes == 4
MaxEmis == 3

\* The first n entries of a list, as a set
Firsts(list, n) == {list[i] : i \in 1..Min2(n, Len(list))}

\* Trust scores: one or two per band, and half-points between two bands
ScoreList ==
    <<Pts(350), Pts(450), Pts(520), Pts(600), Pts(700), Pts(749) + 1, Pts(800),
      Pts(399) + 1, Pts(650)>>
Scores == Firsts(ScoreList, MaxScores)

IncomeList == <<0, Rs(5000), Rs(30000), Rs(100000), Rs(12345) + 67, Rs(60000)>>
Incomes == Firsts(IncomeList, MaxIncomes)

EmiList == <<0, Rs(9000), Rs(37000), Rs(3000), Rs(1500)>>
ExistingEmis == Firsts(EmiList, MaxEmis)

Expenses == {0, Rs(28000)}

FoirCaps == {SCORE_TIERS[i].foir_cap : i \in 1..Len(SCORE_TIERS)}

\* The five personas, one the catalog does not know, and none
Personas ==
    {"farmer", "student", "street_vendor", "homemaker", "general_no_bank",
     "gig_worker", ""}

PersonaDataList ==
    <<EmptyDict,
      [owns_land |-> BoolVal(TRUE), crops_per_year |-> NumVal(200),
       land_acres |-> NumVal(250), is_shg_member |-> BoolVal(TRUE),
       has_enterprise |-> StrVal("yes"), has_license |-> StrVal("none"),
       years_in_trade |-> NumVal(500), score_value |-> NumVal(72000),
       is_group_member |-> NumVal(100), has_internship |-> StrVal("0"),
       monthly_earnings |-> NumVal(Rs(3000)), rent_amount |-> NumVal(Rs(3000))],
      [owns_land |-> BoolVal(FALSE), land_acres |-> NumVal(0),
       avg_daily_income |-> NumVal(0), has_warehouse_receipt |-> BoolVal(TRUE),
       has_enterprise |-> StrVal(""), household_income |-> NumVal(Rs(12000))]>>
PersonaDatas == 1..Len(PersonaDataList)

\* <<desired_amount, desired_tenure>>; <<0, 0>> asks for neither
Requests == {<<0, 0>>, <<Rs(20000) + 40, 24>>, <<Rs(5000000), 0>>}

Sources == {"transaction", "persona", "manual"}

CatalogKeys(catalog) == {catalog[i].key : i \in 1..Len(catalog)}

\* Keys asked of a catalog: its own, and one that belongs to another catalog
KeysTried(source, persona) ==
    IF source = "transaction" THEN CatalogKeys(TRANSACTION_LOANS) \cup {"kcc"}
    ELSE IF source = "persona" /\ persona \in DOMAIN PERSONA_LOANS
    THEN CatalogKeys(PERSONA_LOANS[persona]) \cup {"personal_loan"}
    ELSE {"personal_loan"}

(***************************************************************************)
(* Loan comparison                                                         *)
(***************************************************************************)
\* composite of compare_loans times 1,500,000,000, which makes the four
\* terms whole numbers: rate_score * 0.35 with the rate in basis points,
\* amount_score * 0.30 with the amount in paise, subsidy_score * 0.20 and
\* collateral_score * 0.15.
CompositeScore(loan) ==
    175000 * Max2(0, 3000 - loan.effective_rate)
    + 9 * Min2(loan.max_loan_amount, Rs(500000))
    + (IF loan.subsidy THEN 300000000 ELSE 0)
    + (IF loan.collateral_required THEN 0 ELSE 112500000)

\* {**loan, "_composite_score": composite}
Scored(loan) == [_composite_score |-> CompositeScore(loan)] @@ loan

\* scored.sort(key=_composite_score, reverse=True): stable, largest first.
RECURSIVE InsertByComposite(_, _)
InsertByComposite(sorted, d) ==
    IF Len(sorted) = 0 THEN <<d>>
    ELSE IF Head(sorted)._composite_score >= d._composite_score
         THEN <<Head(sorted)>> \o InsertByComposite(Tail(sorted), d)
         ELSE <<d>> \o sorted

RECURSIVE SortByCompositeDesc(_, _, _)
SortByCompositeDesc(scored, i, acc) ==
    IF i > Len(scored) THEN acc
    ELSE SortByCompositeDesc(scored, i + 1, InsertByComposite(acc, scored[i]))

\* The loop of compare_loans: the eligible loans, each with its composite
ScoredEligible(loans) ==
    LET eligible == SelectSeq(loans, LAMBDA loan : loan.eligible)
    IN  [i \in 1..Len(eligible) |-> Scored(eligible[i])]

\* scored[:3]
FirstThree(scored) == SubSeq(scored, 1, Min2(3, Len(scored)))

\* A variant of compare_loans that skips the sort
compare_loans_unsorted(loans) ==
    IF loans = <<>> THEN <<>> ELSE FirstThree(ScoredEligible(loans))

compare_loans(loans) ==
    IF loans = <<>> THEN <<>>
    ELSE FirstThree(SortByCompositeDesc(ScoredEligible(loans), 1, <<>>))

(***************************************************************************)
(* scoring_engine.py.  A feature is held in hundredths (0..100 for 0..1),  *)
(* a sub-score and a trust score in hundredths of a point, base_100 in     *)
(* 1/10000 of a point and a risk probability in 1/10000.                   *)
(***************************************************************************)
Percent == 100
RiskScale == 10000
MAX_SCORE == 900
MIN_SCORE == 300

\* round(x / unit) for x >= 0: nearest whole number, ties to even
RoundHalfEven(x, unit) ==
    IF 2 * (x % unit) < unit THEN x \div unit
    ELSE IF 2 * (x % unit) > unit THEN x \div unit + 1
    ELSE IF (x \div unit) % 2 = 0 THEN x \div unit ELSE x \div unit + 1

\* np.clip
Clip(x, lo, hi) == Max2(lo, Min2(x, hi))

SUB_SCORE_WEIGHTS ==
    [financial_stability |-> 35, payment_discipline |-> 30,
     digital_behavior |-> 20, work_reliability |-> 15]

\* trend_bonus of financial_stability_score, in hundredths of a point
TrendBonus(row) == Max2(row.feat_income_trend * 10, 0)

\* A variant of financial_stability_score without the trend bonus
financial_stability_score_no_bonus(row) ==
    [sub_financial_stability |->
         Clip(row.feat_income_stability * 40 + row.feat_cash_flow_ratio * 35
              + row.feat_savings_score * 25, 0, 100 * Percent),
     detail_income_stability |-> row.feat_income_stability * Percent,
     detail_cash_flow |-> row.feat_cash_flow_ratio * Percent,
     detail_savings |-> row.feat_savings_score * Percent,
     detail_trend_bonus |-> TrendBonus(row)]

financial_stability_score(row) ==
    [sub_financial_stability |->
         Clip(row.feat_income_stability * 40 + row.feat_cash_flow_ratio * 35
              + row.feat_savings_score * 25 + TrendBonus(row), 0, 100 * Percent),
     detail_income_stability |-> row.feat_income_stability * Percent,
     detail_cash_flow |-> row.feat_cash_flow_ratio * Percent,
     detail_savings |-> row.feat_savings_score * Percent,
     detail_trend_bonus |-> TrendBonus(row)]

payment_discipline_score(row) ==
    [sub_payment_discipline |->
         Clip(row.feat_utility_score * 40 + row.feat_emi_score * 35
              + row.recharge_regularity * 25, 0, 100 * Percent),
     detail_utility |-> row.feat_utility_score * Percent,
     detail_emi |-> row.feat_emi_score * Percent,
     detail_recharge |-> row.recharge_regularity * Percent]

digital_behavior_score(row) ==
    [sub_digital_behavior |->
         Clip(row.feat_txn_regularity * 50 + row.feat_expense_score * 50, 0, 100 * Percent),
     detail_txn_regularity |-> row.feat_txn_regularity * Percent,
     detail_expense |-> row.feat_expense_score * Percent]

work_reliability_score(row) ==
    [sub_work_reliability |->
         Clip(row.feat_work_reliability * 45 + row.feat_income_diversity * 25
              + row.feat_shock_recovery * 30, 0, 100 * Percent),
     detail_work_rel |-> row.feat_work_reliability * Percent,
     detail_diversity |-> row.feat_income_diversity * Percent,
     detail_shock_recovery |-> row.feat_shock_recovery * Percent]

\* base_100 in 1/10000 of a point, from the four rounded sub-scores
Base100(fin, pay, dig, wrk) ==
    fin.sub_financial_stability * SUB_SCORE_WEIGHTS.financial_stability
    + pay.sub_payment_discipline * SUB_SCORE_WEIGHTS.payment_discipline
    + dig.sub_digital_behavior * SUB_SCORE_WEIGHTS.digital_behavior
    + wrk.sub_work_reliability * SUB_SCORE_WEIGHTS.work_reliability

\* MIN_SCORE + (base_100 / 100) * (MAX_SCORE - MIN_SCORE), clipped and rounded
\* to a whole point
BaseTrustScore(base_100) ==
    Percent * RoundHalfEven(Clip(MIN_SCORE * Percent * Percent + base_100 * ((MAX_SCORE - MIN_SCORE) \div 100),
                                 MIN_SCORE * Percent * Percent, MAX_SCORE * Percent * Percent),
                            Percent * Percent)

BaseResult(base_100, fin, pay, dig, wrk) ==
    [base_score_100 |-> RoundHalfEven(base_100, Percent),
     base_trust_score |-> BaseTrustScore(base_100)] @@ fin @@ pay @@ dig @@ wrk

BaseFromSubScores(fin, pay, dig, wrk) ==
    BaseResult(Base100(fin, pay, dig, wrk), fin, pay, dig, wrk)

compute_base_score(row) ==
    BaseFromSubScores(financial_stability_score(row), payment_discipline_score(row),
                      digital_behavior_score(row), work_reliability_score(row))

\* The row compute_final_score is called without
NoRow == [absent |-> TRUE]

\* raw_confidence in 1/30000: each check in 1/300, each weight in 1/100.
\* monthly_incomes is the length of the income history, or -1 for a value
\* that cannot be read as a list (the except branch, 0.3).
RawConfidence(row) ==
    20 * (IF row.monthly_incomes < 0 THEN 90 ELSE Min2(row.monthly_incomes * 50, 300))
    + 25 * Min2(row.total_transactions * 2, 300)
    + 15 * Min2(row.total_bills * 25, 300)
    + 15 * Min2(row.tenure_months * 25, 300)
    + 10 * (IF row.has_recurring_savings # 0 \/ row.avg_monthly_savings > 0 THEN 300 ELSE 120)
    + 15 * Min2(row.num_income_sources * 100, 300)

\* A variant of compute_data_confidence without the floor and the cap
compute_data_confidence_unclipped(row) ==
    IF row = NoRow THEN 65 ELSE RoundHalfEven(RawConfidence(row), 300)

\* Confidence in hundredths
compute_data_confidence(row) ==
    IF row = NoRow THEN 65
    ELSE RoundHalfEven(Clip(RawConfidence(row), 40 * 300, 95 * 300), 300)

\* final before rounding, in 1/(Percent * RiskScale) of a point
FinalUnrounded(base_score, risk_probability) ==
    Clip(MIN_SCORE * Percent * RiskScale + (base_score - MIN_SCORE * Percent) * (RiskScale - risk_probability),
         MIN_SCORE * Percent * RiskScale, MAX_SCORE * Percent * RiskScale)

\* The grade of a score held in 1/unit of a point
GradeOf(final, unit) ==
    IF final >= 750 * unit THEN "Excellent"
    ELSE IF final >= 650 * unit THEN "Good"
    ELSE IF final >= 500 * unit THEN "Fair"
    ELSE IF final >= 400 * unit THEN "Poor"
    ELSE "Very Poor"

GradeColor(grade) ==
    CASE grade = "Excellent" -> "#22c55e" [] grade = "Good" -> "#84cc16"
      [] grade = "Fair" -> "#eab308" [] grade = "Poor" -> "#f97316"
      [] OTHER -> "#ef4444"

FinalResult(final, risk_probability, grade, row) ==
    [final_trust_score |-> Percent * RoundHalfEven(final, Percent * RiskScale),
     risk_probability |-> risk_probability,
     grade |-> grade, grade_color |-> GradeColor(grade),
     confidence |-> compute_data_confidence(row)]

FinalGraded(final, risk_probability, row) ==
    FinalResult(final, risk_probability, GradeOf(final, Percent * RiskScale), row)

\* A variant of compute_final_score that adds the risk instead of removing it
compute_final_score_risk_added(base_score, risk_probability, row) ==
    FinalGraded(Clip(MIN_SCORE * Percent * RiskScale + (base_score - MIN_SCORE * Percent) * (RiskScale + risk_probability),
                     MIN_SCORE * Percent * RiskScale, MAX_SCORE * Percent * RiskScale),
                risk_probability, row)

compute_final_score(base_score, risk_probability, row) ==
    FinalGraded(FinalUnrounded(base_score, risk_probability), risk_probability, row)

(***************************************************************************)
(* alternative_profiles.py.  The input dict is a record from field name to *)
(* a boolean, a whole number or a text; a missing key reads as the default *)
(* of the scorer's data.get.  A criterion score is held in 1/CriterionScale *)
(* (the code rounds it to four decimals), a weight in hundredths.          *)
(***************************************************************************)
CriterionScale == 10000

\* The criteria of each persona and their weights, in the dicts' order
PERSONAS ==
    [farmer |-> <<<<"land_asset", 20>>, <<"crop_consistency", 20>>, <<"subsidy_linkage", 15>>,
                  <<"market_engagement", 15>>, <<"community_trust", 10>>,
                  <<"utility_discipline", 10>>, <<"mobile_behaviour", 10>>>>,
     student |-> <<<<"academic_performance", 25>>, <<"scholarship_history", 15>>,
                   <<"skill_certifications", 15>>, <<"attendance_discipline", 10>>,
                   <<"part_time_income", 10>>, <<"community_trust", 10>>,
                   <<"mobile_behaviour", 10>>, <<"future_potential", 5>>>>,
     street_vendor |-> <<<<"daily_income_consistency", 20>>, <<"rental_discipline", 15>>,
                         <<"utility_discipline", 15>>, <<"savings_habit", 15>>,
                         <<"community_trust", 15>>, <<"mobile_behaviour", 10>>,
                         <<"years_in_trade", 10>>>>,
     homemaker |-> <<<<"household_budgeting", 20>>, <<"savings_habit", 20>>,
                     <<"community_trust", 15>>, <<"utility_discipline", 15>>,
                     <<"micro_enterprise", 10>>, <<"mobile_behaviour", 10>>,
                     <<"skill_certifications", 10>>>>,
     general_no_bank |-> <<<<"mobile_behaviour", 20>>, <<"utility_discipline", 20>>,
                           <<"rental_discipline", 15>>, <<"community_trust", 15>>,
                           <<"savings_habit", 15>>, <<"id_verification", 10>>,
                           <<"psychometric", 5>>>>]

\* data.get(key, default)
Get(data, key, default) == IF key \in DOMAIN data THEN data[key] ELSE default

\* 1 for a flag that is set, as sum() counts a bool
Flag(data, key) == IF Get(data, key, FALSE) THEN 1 ELSE 0

\* round(clip(n / d, 0, 1), 4) for a score of n / d in 1/CriterionScale
ScoreOf(n, d) == RoundHalfEven(Clip(n, 0, CriterionScale * d), d)

score_land_asset(data) ==
    [score |-> ScoreOf((IF Get(data, "owns_land", FALSE) THEN 2400 ELSE 1200)
                       + Min2(Get(data, "land_acres", 0) * 600, 3000)
                       + Min2(Get(data, "years_on_land", 0) * 300, 3000), 1),
     label |-> "Land / Asset Ownership"]

TrendScore(trend) ==
    CASE trend = "up" -> 3500 [] trend = "stable" -> 2450 [] trend = "down" -> 1050
      [] OTHER -> 1750

score_crop_consistency(data) ==
    [score |-> ScoreOf(Min2(Get(data, "seasons_active", 0) * 3500, 6 * 3500)
                       + 6 * Min2(Get(data, "crops_per_year", 0) * 1000, 3000)
                       + 6 * TrendScore(Get(data, "yield_trend", "stable")), 6),
     label |-> "Crop / Yield Consistency"]

score_subsidy_linkage(data) ==
    [score |-> ScoreOf(Min2((Flag(data, "has_pm_kisan") + Flag(data, "has_crop_insurance")
                             + Flag(data, "has_soil_health_card") + Flag(data, "kcc_holder"))
                            * CriterionScale, 3 * CriterionScale), 3),
     label |-> "Government Subsidy Linkage"]

score_market_engagement(data) ==
    [score |-> ScoreOf(Flag(data, "sells_at_mandi") * 3000
                       + Flag(data, "has_warehouse_receipt") * 2500
                       + Flag(data, "uses_enam") * 2000
                       + Min2(Get(data, "avg_trips_per_month", 0) * 625, 2500), 1),
     label |-> "Market Engagement"]

LevelBonus(level) == CASE level = "ug" -> 500 [] level = "pg" -> 1000 [] OTHER -> 0

score_academic_performance(data) ==
    [score |-> ScoreOf((IF Get(data, "score_type", "percentage") = "cgpa"
                        THEN Min2(Get(data, "score_value", 0) * 1000, CriterionScale)
                        ELSE Min2(Get(data, "score_value", 0) * 100, CriterionScale))
                       - Min2(Get(data, "backlog_count", 0) * 1000, 4000)
                       + LevelBonus(Get(data, "education_level", "school")), 1),
     label |-> "Academic Performance"]

score_scholarship_history(data) ==
    [score |-> ScoreOf(Min2(Get(data, "scholarships_received", 0), 3) * 400000
                       + Min2(Get(data, "total_scholarship_value", 0) * 27, 1350000)
                       + Flag(data, "merit_based") * 1500 * 300, 300),
     label |-> "Scholarship History"]

\* platform_certs is held as the number of its entries
score_skill_certifications(data) ==
    [score |-> ScoreOf(Min2(Get(data, "cert_count", 0) * 1000, 5000)
                       + Min2(Get(data, "platform_certs", 0) * 1000, 3000)
                       + Flag(data, "has_govt_certification") * 2000, 1),
     label |-> "Skill Certifications"]

score_attendance_discipline(data) ==
    [score |-> ScoreOf(Min2(Get(data, "attendance_pct", 0), 90) * CriterionScale, 90),
     label |-> "Attendance Discipline"]

score_part_time_income(data) ==
    IF ~Get(data, "has_part_time", FALSE)
    THEN [score |-> 3000, label |-> "Part-time / Freelance Income"]
    ELSE [score |-> ScoreOf(Min2(Get(data, "monthly_earnings", 0) * 3, 30000)
                            + Min2(Get(data, "months_active", 0), 6) * 5000, 6),
          label |-> "Part-time / Freelance Income"]

TierScore(tier) ==
    CASE tier = 1 -> 4500 [] tier = 2 -> 3375 [] tier = 3 -> 2250 [] OTHER -> 1350

DemandScore(demand) ==
    CASE demand = "high" -> 4000 [] demand = "medium" -> 2400 [] demand = "low" -> 1200
      [] OTHER -> 2000

score_future_potential(data) ==
    [score |-> ScoreOf(TierScore(Get(data, "institution_tier", 4))
                       + DemandScore(Get(data, "branch_demand", "medium"))
                       + Flag(data, "has_internship") * 1500, 1),
     label |-> "Future Earning Potential"]

StabilityScore(variation) ==
    CASE variation = "low" -> 3000 [] variation = "medium" -> 1800 [] variation = "high" -> 900
      [] OTHER -> 1500

score_daily_income_consistency(data) ==
    [score |-> ScoreOf(Min2(Get(data, "avg_daily_income", 0) * Get(data, "working_days_per_month", 0) * 91, 3500 * 390)
                       + Min2(Get(data, "working_days_per_month", 0), 26) * 52500
                       + StabilityScore(Get(data, "seasonal_variation", "medium")) * 390, 390),
     label |-> "Daily Income Consistency"]

score_rental_discipline(data) ==
    IF ~Get(data, "pays_rent", FALSE)
    THEN [score |-> 4000, label |-> "Rental Payment Discipline"]
    ELSE [score |-> ScoreOf(Min2(Get(data, "rent_amount", 0) * 3, 15000)
                            + Get(data, "on_time_pct", 0) * 550
                            + Min2(Get(data, "months_of_history", 0), 12) * 2500, 10),
          label |-> "Rental Payment Discipline"]

score_utility_discipline(data) ==
    [score |-> ScoreOf(Min2(Get(data, "bills_per_year", 0), 12) * 250
                       + Get(data, "on_time_pct", 80) * 45
                       + Min2(Flag(data, "has_electricity") + Flag(data, "has_water")
                              + Flag(data, "has_gas"), 2) * 1250, 1),
     label |-> "Utility Bill Discipline"]

MethodScore(method) ==
    CASE method = "shg" -> 2700 [] method = "chit_fund" -> 2400 [] method = "post_office" -> 2550
      [] method = "cash_at_home" -> 1500 [] method = "gold" -> 1800 [] method = "bank" -> 2700
      [] method = "none" -> 300 [] OTHER -> 900

score_savings_habit(data) ==
    [score |-> ScoreOf(MethodScore(Get(data, "savings_method", "none"))
                       + Min2(Get(data, "monthly_savings", 0), 3000)
                       + Min2(Get(data, "months_saving", 0), 12) * 250
                       + Flag(data, "is_shg_member") * 1000, 1),
     label |-> "Savings Discipline"]

score_community_trust(data) ==
    [score |-> ScoreOf(Min2(Get(data, "references_count", 0), 3) * 3500
                       + 3 * Flag(data, "is_group_member") * 2500
                       + 3 * Min2(Get(data, "years_in_community", 0), 5) * 600
                       + 3 * Flag(data, "has_local_business_reference") * 1000, 3),
     label |-> "Community Trust Network"]

FrequencyScore(freq) ==
    CASE freq = "daily" -> 2000 [] freq = "weekly" -> 2800 [] freq = "monthly" -> 3600
      [] OTHER -> 1200

score_mobile_behaviour(data) ==
    [score |-> ScoreOf(FrequencyScore(Get(data, "recharge_frequency", "irregular"))
                       + Flag(data, "has_smartphone") * 2000
                       + Flag(data, "uses_upi_basic") * 1500
                       + Min2(Get(data, "avg_monthly_recharge", 0) * 5, 2500), 1),
     label |-> "Mobile Behaviour & Digital Footprint"]

score_years_in_trade(data) ==
    [score |-> ScoreOf(Min2(Get(data, "years_in_trade", 0), 10) * 750
                       + Flag(data, "same_location") * 1500
                       + Flag(data, "has_license") * 1000, 1),
     label |-> "Years in Trade"]

\* ratio_score * 0.65 + manage_bonus + dep_efficiency over the denominator
\* income (1 when there is no income and ratio_score is 0.2)
BudgetScore(income, expenses, manages, dependents) ==
    IF income > 0
    THEN ScoreOf(6500 * Clip(income - expenses, 0, income)
                 + income * (IF manages THEN 2000 + Min2(dependents, 5) * 300 ELSE 0), income)
    ELSE ScoreOf(1300 + (IF manages THEN 2000 + Min2(dependents, 5) * 300 ELSE 0), 1)

score_household_budgeting(data) ==
    [score |-> BudgetScore(Get(data, "household_income", 0), Get(data, "household_expenses", 0),
                           Get(data, "manages_budget", FALSE), Get(data, "dependents", 0)),
     label |-> "Household Budget Management"]

score_micro_enterprise(data) ==
    IF ~Get(data, "has_enterprise", FALSE)
    THEN [score |-> 2500, label |-> "Micro Enterprise"]
    ELSE [score |-> ScoreOf(Min2(Get(data, "monthly_revenue", 0) * 3, 30000)
                            + Min2(Get(data, "months_active", 0), 12) * 2000 + 6000, 6),
          label |-> "Micro Enterprise"]

score_id_verification(data) ==
    [score |-> ScoreOf(Min2(Flag(data, "has_aadhaar") + Flag(data, "has_pan")
                            + Flag(data, "has_voter_id") + Flag(data, "has_ration_card"), 3) * 8000
                       + 3 * Flag(data, "has_aadhaar") * 2000, 3),
     label |-> "Identity Verification"]

score_psychometric(data) ==
    [score |-> ScoreOf((Get(data, "q1_financial_planning", 3) + Get(data, "q2_risk_awareness", 3)
                        + Get(data, "q3_goal_orientation", 3) + Get(data, "q4_repayment_intent", 3)
                        + Get(data, "q5_responsibility", 3) - 5) * 500, 1),
     label |-> "Psychometric Assessment"]

\* CRITERIA_REGISTRY[criterion](data)
CRITERIA_REGISTRY(criterion, data) ==
    CASE criterion = "land_asset" -> score_land_asset(data)
      [] criterion = "crop_consistency" -> score_crop_consistency(data)
      [] criterion = "subsidy_linkage" -> score_subsidy_linkage(data)
      [] criterion = "market_engagement" -> score_market_engagement(data)
      [] criterion = "academic_performance" -> score_academic_performance(data)
      [] criterion = "scholarship_history" -> score_scholarship_history(data)
      [] criterion = "skill_certifications" -> score_skill_certifications(data)
      [] criterion = "attendance_discipline" -> score_attendance_discipline(data)
      [] criterion = "part_time_income" -> score_part_time_income(data)
      [] criterion = "future_potential" -> score_future_potential(data)
      [] criterion = "daily_income_consistency" -> score_daily_income_consistency(data)
      [] criterion = "rental_discipline" -> score_rental_discipline(data)
      [] criterion = "utility_discipline" -> score_utility_discipline(data)
      [] criterion = "savings_habit" -> score_savings_habit(data)
      [] criterion = "community_trust" -> score_community_trust(data)
      [] criterion = "mobile_behaviour" -> score_mobile_behaviour(data)
      [] criterion = "years_in_trade" -> score_years_in_trade(data)
      [] criterion = "household_budgeting" -> score_household_budgeting(data)
      [] criterion = "micro_enterprise" -> score_micro_enterprise(data)
      [] criterion = "id_verification" -> score_id_verification(data)
      [] criterion = "psychometric" -> score_psychometric(data)

\* PERSONAS[persona]["label"]
PERSONA_LABELS ==
    [farmer |-> "Farmer", student |-> "Student",
     street_vendor |-> "Street Vendor / Informal Worker", homemaker |-> "Homemaker",
     general_no_bank |-> "General (No Bank Account)"]

\* The raise of compute_persona_score, as the caller sees it
Raised(exception) == [raised |-> exception]

\* criteria_results, in the order the criteria were inserted
CriteriaResults(weights, data) ==
    [i \in 1..Len(weights) |-> [criterion |-> weights[i][1]] @@ CRITERIA_REGISTRY(weights[i][1], data)]

RECURSIVE WeightedTotal(_, _, _)
WeightedTotal(weights, criteria_results, n) ==
    IF n = 0 THEN 0
    ELSE WeightedTotal(weights, criteria_results, n - 1) + criteria_results[n].score * weights[n][2]

RECURSIVE TotalWeight(_, _)
TotalWeight(weights, n) == IF n = 0 THEN 0 ELSE TotalWeight(weights, n - 1) + weights[n][2]

\* The criteria whose score is above 0.20
FilledCount(criteria_results) ==
    Cardinality({i \in 1..Len(criteria_results) : criteria_results[i].score > 2000})

\* base_100 in units of 1 / (Percent * total_weight); 30 when no weight counted.
\* The code rounds the float nearest to it, so a base_score_100 at an exact
\* tie may come out one hundredth away from the half-even value held here
Base100Persona(weighted_total, total_weight) == IF total_weight > 0 THEN weighted_total ELSE 30 * Percent

BaseUnit(total_weight) == IF total_weight > 0 THEN total_weight ELSE 1

\* trust_score before it is rounded, in units of 1 / (Percent * unit)
PersonaTrust(base_100, unit) ==
    Clip(MIN_SCORE * Percent * unit + base_100 * ((MAX_SCORE - MIN_SCORE) \div 100),
         MIN_SCORE * Percent * unit, MAX_SCORE * Percent * unit)

\* A variant of PersonaConfidence that leaves the ratio unclipped
PersonaConfidence_unclipped(filled_count, total_criteria) ==
    RoundHalfEven(filled_count * Percent, total_criteria)

\* round(clip(filled_count / total_criteria, 0.30, 0.95), 2), in hundredths
PersonaConfidence(filled_count, total_criteria) ==
    RoundHalfEven(Clip(filled_count * Percent, 30 * total_criteria, 95 * total_criteria), total_criteria)

PersonaResult(persona, criteria_results, base_100, unit, trust_score, filled_count) ==
    [persona |-> persona,
     persona_label |-> PERSONA_LABELS[persona],
     base_score_100 |-> RoundHalfEven(base_100, unit),
     trust_score |-> RoundHalfEven(trust_score, Percent * unit),
     grade |-> GradeOf(trust_score, Percent * unit),
     grade_color |-> GradeColor(GradeOf(trust_score, Percent * unit)),
     confidence |-> PersonaConfidence(filled_count, Len(criteria_results)),
     criteria_breakdown |-> criteria_results,
     criteria_count |-> Len(criteria_results),
     filled_count |-> filled_count]

PersonaTotals(persona, criteria_results, weighted_total, total_weight) ==
    PersonaResult(persona, criteria_results,
        Base100Persona(weighted_total, total_weight), BaseUnit(total_weight),
        PersonaTrust(Base100Persona(weighted_total, total_weight), BaseUnit(total_weight)),
        FilledCount(criteria_results))

PersonaScored(persona, weights, criteria_results) ==
    PersonaTotals(persona, criteria_results,
        WeightedTotal(weights, criteria_results, Len(weights)),
        TotalWeight(weights, Len(weights)))

compute_persona_score(persona, data) ==
    IF persona \notin DOMAIN PERSONAS THEN Raised("ValueError")
    ELSE PersonaScored(persona, PERSONAS[persona], CriteriaResults(PERSONAS[persona], data))

\* field_definitions: the keys of the form fields of a criterion, in order
field_definitions(criterion) ==
    CASE criterion = "land_asset" -> <<"owns_land", "land_acres", "years_on_land">>
      [] criterion = "crop_consistency" -> <<"seasons_active", "crops_per_year", "yield_trend">>
      [] criterion = "subsidy_linkage" ->
            <<"has_pm_kisan", "has_crop_insurance", "has_soil_health_card", "kcc_holder">>
      [] criterion = "market_engagement" ->
            <<"sells_at_mandi", "has_warehouse_receipt", "uses_enam", "avg_trips_per_month">>
      [] criterion = "academic_performance" ->
            <<"score_type", "score_value", "education_level", "backlog_count">>
      [] criterion = "scholarship_history" ->
            <<"scholarships_received", "total_scholarship_value", "merit_based">>
      [] criterion = "skill_certifications" ->
            <<"cert_count", "has_govt_certification", "platform_certs">>
      [] criterion = "attendance_discipline" -> <<"attendance_pct">>
      [] criterion = "part_time_income" -> <<"has_part_time", "monthly_earnings", "months_active">>
      [] criterion = "future_potential" -> <<"institution_tier", "branch_demand", "has_internship">>
      [] criterion = "daily_income_consistency" ->
            <<"avg_daily_income", "working_days_per_month", "seasonal_variation">>
      [] criterion = "rental_discipline" ->
            <<"pays_rent", "rent_amount", "on_time_pct", "months_of_history">>
      [] criterion = "utility_discipline" ->
            <<"bills_per_year", "on_time_pct", "has_electricity", "has_water", "has_gas">>
      [] criterion = "savings_habit" ->
            <<"savings_method", "monthly_savings", "months_saving", "is_shg_member">>
      [] criterion = "community_trust" ->
            <<"references_count", "is_group_member", "group_type", "years_in_community",
              "has_local_business_reference">>
      [] criterion = "mobile_behaviour" ->
            <<"recharge_frequency", "has_smartphone", "uses_upi_basic", "avg_monthly_recharge">>
      [] criterion = "years_in_trade" -> <<"years_in_trade", "same_location", "has_license">>
      [] criterion = "household_budgeting" ->
            <<"household_income", "household_expenses", "manages_budget", "dependents">>
      [] criterion = "micro_enterprise" ->
            <<"has_enterprise", "enterprise_type", "monthly_revenue", "months_active">>
      [] criterion = "id_verification" ->
            <<"has_aadhaar", "has_pan", "has_voter_id", "has_ration_card">>
      [] criterion = "psychometric" ->
            <<"q1_financial_planning", "q2_risk_awareness", "q3_goal_orientation",
              "q4_repayment_intent", "q5_responsibility">>
      [] OTHER -> <<>>

\* PERSONAS.get(persona, {}).get("criteria_weights", {})
WeightsOrNone(persona) == IF persona \in DOMAIN PERSONAS THEN PERSONAS[persona] ELSE <<>>

\* The label of an entry is the class name of a scorer's result, "dict"
FormFields(weights) ==
    [i \in 1..Len(weights) |->
        [criterion |-> weights[i][1], label |-> "dict", fields |-> field_definitions(weights[i][1])]]

get_persona_form_fields(persona) == FormFields(WeightsOrNone(persona))

\* The criteria tip_map has an entry for: every one but future_potential
TipCriteria ==
    {"land_asset", "crop_consistency", "subsidy_linkage", "market_engagement",
     "academic_performance", "scholarship_history", "skill_certifications",
     "attendance_discipline", "part_time_income", "daily_income_consistency",
     "rental_discipline", "utility_discipline", "savings_habit", "community_trust",
     "mobile_behaviour", "years_in_trade", "household_budgeting", "micro_enterprise",
     "id_verification", "psychometric"}

\* _get_tip; the texts of a tip are left out.  None is the empty sequence
\* here, a tip a sequence of one
_get_tip(persona, criterion, score) ==
    IF criterion \in TipCriteria THEN <<[criterion |-> criterion, current_score |-> score]>>
    ELSE <<>>

RECURSIVE WeakTips(_, _, _)
WeakTips(persona, breakdown, n) ==
    IF n = 0 THEN <<>>
    ELSE WeakTips(persona, breakdown, n - 1)
         \o (IF breakdown[n].score < 5000
             THEN _get_tip(persona, breakdown[n].criterion, breakdown[n].score) ELSE <<>>)

\* list.sort(key=current_score): stable, so a tip goes behind its equals
InsertByCurrentScore(sorted, tip) ==
    SelectSeq(sorted, LAMBDA t : t.current_score <= tip.current_score)
    \o <<tip>> \o SelectSeq(sorted, LAMBDA t : t.current_score > tip.current_score)

RECURSIVE SortByCurrentScore(_, _)
SortByCurrentScore(tips, n) ==
    IF n = 0 THEN <<>> ELSE InsertByCurrentScore(SortByCurrentScore(tips, n - 1), tips[n])

FirstFive(tips) == SubSeq(tips, 1, Min2(Len(tips), 5))

SortedTips(tips) == FirstFive(SortByCurrentScore(tips, Len(tips)))

\* result.get("criteria_breakdown", {})
BreakdownOf(persona_result) ==
    IF "criteria_breakdown" \in DOMAIN persona_result THEN persona_result.criteria_breakdown ELSE <<>>

get_improvement_tips(persona, persona_result) ==
    SortedTips(WeakTips(persona, BreakdownOf(persona_result), Len(BreakdownOf(persona_result))))

(***************************************************************************)
(* The state machine: a caller invokes one function of the engine, reads   *)
(* the returned value, and is then free to call again.                     *)
(***************************************************************************)
NoCall == [fn |-> "none"]
NoResult == <<>>

Init == pc = "idle" /\ call = NoCall /\ result = NoResult

Call_get_score_tier ==
    /\ pc = "idle"
    /\ \E score \in Pts(290)..Pts(910) :
         /\ call' = [fn |-> "get_score_tier", score |-> score]
         /\ result' = get_score_tier(score)
    /\ pc' = "returned"

\* What a caller keeps of an earlier analysis of the same applicant
NoEarlier == [seen |-> FALSE, existing_emi |-> 0, max_new_emi |-> 0, verdict |-> ""]

Call_analyze_repayment_capacity ==
    /\ pc = "idle"
    /\ \E monthly_income \in Incomes, monthly_expenses \in Expenses,
          existing_emi \in ExistingEmis, foir_cap \in FoirCaps :
         /\ call' = [fn |-> "analyze_repayment_capacity",
                     monthly_income |-> monthly_income,
                     monthly_expenses |-> monthly_expenses,
                     existing_emi |-> existing_emi, foir_cap |-> foir_cap,
                     earlier |-> NoEarlier]
         /\ result' = analyze_repayment_capacity(monthly_income, monthly_expenses,
                                                 existing_emi, foir_cap)
    /\ pc' = "returned"

\* The same applicant analysed again after taking on more EMI
Reanalyze_with_more_emi ==
    /\ pc = "returned"
    /\ call.fn = "analyze_repayment_capacity"
    /\ \E existing_emi \in ExistingEmis :
         /\ existing_emi > call.existing_emi
         /\ call' = [call EXCEPT !.existing_emi = existing_emi,
                                 !.earlier = [seen |-> TRUE,
                                              existing_emi |-> call.existing_emi,
                                              max_new_emi |-> result.max_new_emi,
                                              verdict |-> result.verdict]]
         /\ result' = analyze_repayment_capacity(call.monthly_income,
                          call.monthly_expenses, existing_emi, call.foir_cap)
    /\ pc' = "returned"

Call_get_transaction_loan_recommendations ==
    /\ pc = "idle"
    /\ \E score \in Scores, monthly_income \in Incomes,
          monthly_expenses \in Expenses, existing_emi \in ExistingEmis :
         /\ call' = [fn |-> "get_transaction_loan_recommendations",
                     score |-> score, monthly_income |-> monthly_income,
                     monthly_expenses |-> monthly_expenses,
                     existing_emi |-> existing_emi]
         /\ result' = get_transaction_loan_recommendations(score, monthly_income,
                          monthly_expenses, existing_emi)
    /\ pc' = "returned"

Call_get_persona_loan_recommendations ==
    /\ pc = "idle"
    /\ \E persona \in Personas, score \in Scores, d \in PersonaDatas,
          monthly_income \in Incomes :
         /\ call' = [fn |-> "get_persona_loan_recommendations",
                     persona |-> persona, score |-> score,
                     persona_data |-> PersonaDataList[d],
                     monthly_income |-> monthly_income]
         /\ result' = get_persona_loan_recommendations(persona, score,
                          PersonaDataList[d], monthly_income)
    /\ pc' = "returned"

Call_check_loan_eligibility ==
    /\ pc = "idle"
    /\ \E source \in Sources, score \in Scores, monthly_income \in Incomes,
          monthly_expenses \in Expenses, existing_emi \in ExistingEmis,
          request \in Requests :
         \E persona \in (IF source = "persona" THEN Personas ELSE {""}),
            d \in (IF source = "persona" THEN PersonaDatas ELSE {1}) :
           \E loan_key \in KeysTried(source, persona) :
             /\ call' = [fn |-> "check_loan_eligibility", loan_key |-> loan_key,
                         source |-> source, persona |-> persona, score |-> score,
                         monthly_income |-> monthly_income,
                         monthly_expenses |-> monthly_expenses,
                         existing_emi |-> existing_emi,
                         persona_data |-> PersonaDataList[d],
                         desired_amount |-> request[1],
                         desired_tenure |-> request[2]]
             /\ result' = check_loan_eligibility(loan_key, source, persona, score,
                              monthly_income, monthly_expenses, existing_emi,
                              PersonaDataList[d], request[1], request[2])
    /\ pc' = "returned"

Return ==
    /\ pc = "returned"
    /\ pc' = "idle"
    /\ call' = NoCall
    /\ result' = NoResult

Next ==
    \/ Call_get_score_tier
    \/ Call_analyze_repayment_capacity
    \/ Reanalyze_with_more_emi
    \/ Call_get_transaction_loan_recommendations
    \/ Call_get_persona_loan_recommendations
    \/ Call_check_loan_eligibility
    \/ Return

Spec == Init /\ [][Next]_vars

(***************************************************************************)
(* The calculators: EMI, its inverse, the repayment schedule and the loan  *)
(* comparison, called on their own as the pages of the application do.     *)
(***************************************************************************)
\* Rate (basis points) times months is capped so that (1+r)^n stays within
\* the fixed-point range of GrowthFactor
MaxRateMonths == 324000

\* Principals: negative, zero, one paisa, and loan sizes
Principals == {0 - Rs(1), 0, 1, Rs(12000), Rs(20000), Rs(100000), Rs(123456) + 78, Rs(200000)}

\* Monthly EMI budgets handed to max_loan_from_emi directly
EmiBudgets == {0 - Rs(1), 0, 1, Rs(1500), Rs(8885), Rs(50000)}

\* Annual rates of the catalogs in basis points, zero for an interest-free loan
AnnualRates == {0, 700, 850, 900, 1200, 1800}

\* Tenures in months, up to the longest of the catalogs
Tenures == {0 - 1, 0, 1, 3, 12, 36, 240, 360}

Call_calculate_emi ==
    /\ pc = "idle"
    /\ \E principal \in Principals, annual_rate \in AnnualRates, tenure_months \in Tenures :
         /\ annual_rate * tenure_months <= MaxRateMonths
         /\ call' = [fn |-> "calculate_emi", principal |-> principal,
                     annual_rate |-> annual_rate, tenure_months |-> tenure_months]
         /\ result' = EmiReturned(principal, annual_rate, tenure_months)
    /\ pc' = "returned"

\* The EMI just returned is handed back to max_loan_from_emi with the same
\* rate and tenure
Invert_with_max_loan_from_emi ==
    /\ pc = "returned"
    /\ call.fn = "calculate_emi"
    /\ call' = [fn |-> "max_loan_from_emi", max_emi |-> result,
                annual_rate |-> call.annual_rate, tenure_months |-> call.tenure_months,
                principal |-> call.principal, inverts |-> TRUE]
    /\ result' = LoanFromEmiReturned(result, call.annual_rate, call.tenure_months)
    /\ pc' = "returned"

Call_max_loan_from_emi ==
    /\ pc = "idle"
    /\ \E max_emi \in EmiBudgets, annual_rate \in AnnualRates, tenure_months \in Tenures :
         /\ annual_rate * tenure_months <= MaxRateMonths
         /\ call' = [fn |-> "max_loan_from_emi", max_emi |-> [paise |-> max_emi, num |-> 0, den |-> 1],
                     annual_rate |-> annual_rate, tenure_months |-> tenure_months,
                     principal |-> 0, inverts |-> FALSE]
         /\ result' = max_loan_from_emi(max_emi, annual_rate, tenure_months)
    /\ pc' = "returned"

\* Principals of the schedules: the balance is held in 1/SubPaise of a paisa
SchedulePrincipals == {0 - Rs(1), 0, 4, Rs(1000), Rs(20000), Rs(100000)}

Call_generate_repayment_schedule ==
    /\ pc = "idle"
    /\ \E principal \in SchedulePrincipals, annual_rate \in AnnualRates, tenure_months \in Tenures :
         /\ annual_rate * tenure_months <= MaxRateMonths
         /\ call' = [fn |-> "generate_repayment_schedule", principal |-> principal,
                     annual_rate |-> annual_rate, tenure_months |-> tenure_months]
         /\ result' = generate_repayment_schedule(principal, annual_rate, tenure_months)
    /\ pc' = "returned"

\* The lists handed to compare_loans are taken from a recommendation bundle:
\* its eligible loans (as the pages do), its ineligible loans, both, or none
LoanLists(bundle) ==
    {bundle.eligible_loans, bundle.ineligible_loans,
     bundle.ineligible_loans \o bundle.eligible_loans, <<>>}

\* The persona bundles are built for the five personas of the catalog
ComparedPersonas == DOMAIN PERSONA_LOANS

Call_compare_loans ==
    /\ pc = "idle"
    /\ \E score \in Scores, monthly_income \in Incomes, persona \in ComparedPersonas \cup {""} :
         \E loans \in LoanLists(IF persona = ""
                                THEN get_transaction_loan_recommendations(score, monthly_income, 0, 0)
                                ELSE get_persona_loan_recommendations(persona, score, EmptyDict, monthly_income)) :
           /\ call' = [fn |-> "compare_loans", loans |-> loans]
           /\ result' = compare_loans(loans)
    /\ pc' = "returned"

NextCalc ==
    \/ Call_calculate_emi
    \/ Invert_with_max_loan_from_emi
    \/ Call_max_loan_from_emi
    \/ Call_generate_repayment_schedule
    \/ Call_compare_loans
    \/ Return

SpecCalc == Init /\ [][NextCalc]_vars

(***************************************************************************)
(* The scoring engine: sub-scores, base score, data confidence and final   *)
(* score, each called with a feature row or a base score.                  *)
(***************************************************************************)
\* Features in hundredths: the ends of [0, 1] and two values inside
FeatureLevels == {0, 37, 50, 100}

\* feat_income_trend is clamped to [-1, 1]
TrendLevels == {0 - 100, 0, 25, 100}

FinancialRows ==
    {[feat_income_stability |-> a, feat_income_trend |-> t, feat_cash_flow_ratio |-> b, feat_savings_score |-> c] :
        a \in FeatureLevels, t \in TrendLevels, b \in {0, 50, 100}, c \in {0, 50, 100}}

PaymentRows ==
    {[feat_utility_score |-> a, feat_emi_score |-> b, recharge_regularity |-> c] :
        a \in FeatureLevels, b \in {0, 50, 100}, c \in {0, 50, 100}}

DigitalRows ==
    {[feat_txn_regularity |-> a, feat_expense_score |-> b] : a \in FeatureLevels, b \in FeatureLevels}

WorkRows ==
    {[feat_work_reliability |-> a, feat_income_diversity |-> b, feat_shock_recovery |-> c] :
        a \in FeatureLevels, b \in {0, 50, 100}, c \in {0, 50, 100}}

\* Whole rows: every group of features at one level, the trend apart
WholeRow(f, t, p, d, w) ==
    [feat_income_stability |-> f, feat_income_trend |-> t, feat_cash_flow_ratio |-> f,
     feat_savings_score |-> f, feat_utility_score |-> p, feat_emi_score |-> p,
     recharge_regularity |-> p, feat_txn_regularity |-> d, feat_expense_score |-> d,
     feat_work_reliability |-> w, feat_income_diversity |-> w, feat_shock_recovery |-> w]

\* The fields compute_data_confidence reads: none given (the defaults), a
\* thin history, an income history that cannot be read, and a rich history
ConfidenceRows ==
    {[monthly_incomes |-> 0, total_transactions |-> 0, total_bills |-> 0, tenure_months |-> 0,
      has_recurring_savings |-> 0, avg_monthly_savings |-> 0, num_income_sources |-> 1],
     [monthly_incomes |-> 3, total_transactions |-> 80, total_bills |-> 5, tenure_months |-> 7,
      has_recurring_savings |-> 0, avg_monthly_savings |-> 0, num_income_sources |-> 1],
     [monthly_incomes |-> 0 - 1, total_transactions |-> 120, total_bills |-> 12, tenure_months |-> 4,
      has_recurring_savings |-> 1, avg_monthly_savings |-> 0, num_income_sources |-> 2],
     [monthly_incomes |-> 8, total_transactions |-> 400, total_bills |-> 24, tenure_months |-> 36,
      has_recurring_savings |-> 0, avg_monthly_savings |-> Rs(1500), num_income_sources |-> 4]}

\* Base scores in hundredths of a point: whole ones, as compute_base_score
\* returns them, and fractional ones
BaseScores ==
    {MIN_SCORE * Percent, 30060, 52400, 64950, 75000, 75060, MAX_SCORE * Percent}

\* Risk probabilities in 1/RiskScale
Risks == {0, 1, 5, 2500, 5000, RiskScale - 1, RiskScale}

Call_financial_stability_score ==
    /\ pc = "idle"
    /\ \E row \in FinancialRows :
         /\ call' = [fn |-> "financial_stability_score", row |-> row]
         /\ result' = financial_stability_score(row)
    /\ pc' = "returned"

Call_payment_discipline_score ==
    /\ pc = "idle"
    /\ \E row \in PaymentRows :
         /\ call' = [fn |-> "payment_discipline_score", row |-> row]
         /\ result' = payment_discipline_score(row)
    /\ pc' = "returned"

Call_digital_behavior_score ==
    /\ pc = "idle"
    /\ \E row \in DigitalRows :
         /\ call' = [fn |-> "digital_behavior_score", row |-> row]
         /\ result' = digital_behavior_score(row)
    /\ pc' = "returned"

Call_work_reliability_score ==
    /\ pc = "idle"
    /\ \E row \in WorkRows :
         /\ call' = [fn |-> "work_reliability_score", row |-> row]
         /\ result' = work_reliability_score(row)
    /\ pc' = "returned"

Call_compute_base_score ==
    /\ pc = "idle"
    /\ \E f \in FeatureLevels, t \in TrendLevels, p \in FeatureLevels, d \in FeatureLevels, w \in FeatureLevels :
         /\ call' = [fn |-> "compute_base_score", row |-> WholeRow(f, t, p, d, w)]
         /\ result' = compute_base_score(WholeRow(f, t, p, d, w))
    /\ pc' = "returned"

Call_compute_data_confidence ==
    /\ pc = "idle"
    /\ \E row \in ConfidenceRows \cup {NoRow} :
         /\ call' = [fn |-> "compute_data_confidence", row |-> row]
         /\ result' = compute_data_confidence(row)
    /\ pc' = "returned"

\* What a caller keeps of an earlier final score of the same base score
NoEarlierScore == [seen |-> FALSE, risk_probability |-> 0, final_trust_score |-> 0]

Call_compute_final_score ==
    /\ pc = "idle"
    /\ \E base_score \in BaseScores, risk_probability \in Risks, row \in ConfidenceRows \cup {NoRow} :
         /\ call' = [fn |-> "compute_final_score", base_score |-> base_score,
                     risk_probability |-> risk_probability, row |-> row,
                     earlier |-> NoEarlierScore]
         /\ result' = compute_final_score(base_score, risk_probability, row)
    /\ pc' = "returned"

\* The same base score scored again at a higher risk probability
Rescore_with_more_risk ==
    /\ pc = "returned"
    /\ call.fn = "compute_final_score"
    /\ \E risk_probability \in Risks :
         /\ risk_probability > call.risk_probability
         /\ call' = [call EXCEPT !.risk_probability = risk_probability,
                                 !.earlier = [seen |-> TRUE,
                                              risk_probability |-> call.risk_probability,
                                              final_trust_score |-> result.final_trust_score]]
         /\ result' = compute_final_score(call.base_score, risk_probability, call.row)
    /\ pc' = "returned"

NextScore ==
    \/ Call_financial_stability_score
    \/ Call_payment_discipline_score
    \/ Call_digital_behavior_score
    \/ Call_work_reliability_score
    \/ Call_compute_base_score
    \/ Call_compute_data_confidence
    \/ Call_compute_final_score
    \/ Rescore_with_more_risk
    \/ Return

SpecScore == Init /\ [][NextScore]_vars

(***************************************************************************)
(* The persona scorer, its form and its tips.  An input dict is put        *)
(* together from one fragment per criterion of the persona: no field of    *)
(* the criterion, some of its fields, or all of them.                      *)
(***************************************************************************)
CriterionFragments(criterion) ==
    CASE criterion = "land_asset" ->
            <<EmptyDict, [owns_land |-> TRUE],
              [owns_land |-> TRUE, land_acres |-> 4, years_on_land |-> 12]>>
      [] criterion = "crop_consistency" ->
            <<EmptyDict, [yield_trend |-> "down"],
              [seasons_active |-> 5, crops_per_year |-> 2, yield_trend |-> "up"]>>
      [] criterion = "subsidy_linkage" ->
            <<EmptyDict, [has_pm_kisan |-> TRUE],
              [has_pm_kisan |-> TRUE, has_crop_insurance |-> TRUE,
               has_soil_health_card |-> TRUE, kcc_holder |-> TRUE]>>
      [] criterion = "market_engagement" ->
            <<EmptyDict, [sells_at_mandi |-> TRUE],
              [sells_at_mandi |-> TRUE, has_warehouse_receipt |-> TRUE,
               uses_enam |-> FALSE, avg_trips_per_month |-> 3]>>
      [] criterion = "academic_performance" ->
            <<EmptyDict, [backlog_count |-> 2],
              [score_type |-> "cgpa", score_value |-> 9, education_level |-> "pg",
               backlog_count |-> 0]>>
      [] criterion = "scholarship_history" ->
            <<EmptyDict, [total_scholarship_value |-> 20000],
              [scholarships_received |-> 2, total_scholarship_value |-> 60000,
               merit_based |-> TRUE]>>
      [] criterion = "skill_certifications" ->
            <<EmptyDict, [cert_count |-> 2],
              [cert_count |-> 6, has_govt_certification |-> TRUE, platform_certs |-> 2]>>
      [] criterion = "attendance_discipline" ->
            <<EmptyDict, [attendance_pct |-> 17], [attendance_pct |-> 95]>>
      [] criterion = "part_time_income" ->
            <<EmptyDict, [has_part_time |-> TRUE],
              [has_part_time |-> TRUE, monthly_earnings |-> 4000, months_active |-> 7]>>
      [] criterion = "future_potential" ->
            <<EmptyDict, [has_internship |-> TRUE],
              [institution_tier |-> 1, branch_demand |-> "high", has_internship |-> TRUE]>>
      [] criterion = "daily_income_consistency" ->
            <<EmptyDict, [working_days_per_month |-> 25],
              [avg_daily_income |-> 500, working_days_per_month |-> 25,
               seasonal_variation |-> "low"]>>
      [] criterion = "rental_discipline" ->
            <<EmptyDict, [pays_rent |-> TRUE],
              [pays_rent |-> TRUE, rent_amount |-> 2000, on_time_pct |-> 80,
               months_of_history |-> 12]>>
      [] criterion = "utility_discipline" ->
            <<EmptyDict, [on_time_pct |-> 0],
              [bills_per_year |-> 12, on_time_pct |-> 100, has_electricity |-> TRUE,
               has_water |-> TRUE, has_gas |-> FALSE]>>
      [] criterion = "savings_habit" ->
            <<EmptyDict, [monthly_savings |-> 500],
              [savings_method |-> "shg", monthly_savings |-> 1000, months_saving |-> 6,
               is_shg_member |-> TRUE]>>
      [] criterion = "community_trust" ->
            <<EmptyDict, [references_count |-> 1],
              [references_count |-> 4, is_group_member |-> TRUE, group_type |-> "SHG",
               years_in_community |-> 3, has_local_business_reference |-> TRUE]>>
      [] criterion = "mobile_behaviour" ->
            <<EmptyDict, [has_smartphone |-> TRUE],
              [recharge_frequency |-> "monthly", has_smartphone |-> TRUE,
               uses_upi_basic |-> TRUE, avg_monthly_recharge |-> 299]>>
      [] criterion = "years_in_trade" ->
            <<EmptyDict, [same_location |-> TRUE],
              [years_in_trade |-> 5, same_location |-> TRUE, has_license |-> TRUE]>>
      [] criterion = "household_budgeting" ->
            <<EmptyDict, [household_income |-> 20000],
              [household_income |-> 20000, household_expenses |-> 15000,
               manages_budget |-> TRUE, dependents |-> 3]>>
      [] criterion = "micro_enterprise" ->
            <<EmptyDict, [has_enterprise |-> TRUE],
              [has_enterprise |-> TRUE, enterprise_type |-> "tailoring",
               monthly_revenue |-> 7000, months_active |-> 10]>>
      [] criterion = "id_verification" ->
            <<EmptyDict, [has_pan |-> TRUE],
              [has_aadhaar |-> TRUE, has_pan |-> TRUE, has_voter_id |-> TRUE,
               has_ration_card |-> FALSE]>>
      [] criterion = "psychometric" ->
            <<EmptyDict, [q1_financial_planning |-> 5],
              [q1_financial_planning |-> 5, q2_risk_awareness |-> 4,
               q3_goal_orientation |-> 3, q4_repayment_intent |-> 5,
               q5_responsibility |-> 2]>>

\* How much of a criterion's fields a dict carries: none, some, all
Fills == 1..3

\* The dict of the chosen fragments; a key two criteria share keeps the
\* value of the first
RECURSIVE FormData(_, _, _)
FormData(weights, fills, n) ==
    IF n = 0 THEN EmptyDict
    ELSE FormData(weights, fills, n - 1) @@ CriterionFragments(weights[n][1])[fills[n]]

\* The five personas and one PERSONAS has no entry for
PersonaKeys == DOMAIN PERSONAS \cup {"gig_worker"}

Call_compute_persona_score ==
    /\ pc = "idle"
    /\ \E persona \in PersonaKeys :
         \E fills \in [1..Len(WeightsOrNone(persona)) -> Fills] :
            /\ call' = [fn |-> "compute_persona_score", persona |-> persona,
                        fills |-> fills,
                        data |-> FormData(WeightsOrNone(persona), fills, Len(fills))]
            /\ result' = compute_persona_score(persona,
                             FormData(WeightsOrNone(persona), fills, Len(fills)))
    /\ pc' = "returned"

Call_get_persona_form_fields ==
    /\ pc = "idle"
    /\ \E persona \in PersonaKeys :
         /\ call' = [fn |-> "get_persona_form_fields", persona |-> persona]
         /\ result' = get_persona_form_fields(persona)
    /\ pc' = "returned"

\* The tips for a result compute_persona_score returned, as the page asks
\* for them, under the persona it displays
Call_get_improvement_tips ==
    /\ pc = "returned"
    /\ call.fn = "compute_persona_score"
    /\ "raised" \notin DOMAIN result
    /\ \E persona \in {call.persona, "gig_worker"} :
         /\ call' = [fn |-> "get_improvement_tips", persona |-> persona,
                     result |-> result]
         /\ result' = get_improvement_tips(persona, result)
    /\ pc' = "returned"

\* The keys of CRITERIA_REGISTRY
RegisteredCriteria == TipCriteria \cup {"future_potential"}

\* One scorer of the registry called on its own, as the form page does to
\* read a criterion's label
Call_criterion_scorer ==
    /\ pc = "idle"
    /\ \E criterion \in RegisteredCriteria, fill \in Fills :
         /\ call' = [fn |-> "CRITERIA_REGISTRY", criterion |-> criterion,
                     data |-> CriterionFragments(criterion)[fill]]
         /\ result' = CRITERIA_REGISTRY(criterion, CriterionFragments(criterion)[fill])
    /\ pc' = "returned"

NextPersona ==
    \/ Call_compute_persona_score
    \/ Call_criterion_scorer
    \/ Call_get_persona_form_fields
    \/ Call_get_improvement_tips
    \/ Call_get_persona_loan_recommendations
    \/ Return

SpecPersona == Init /\ [][NextPersona]_vars

(***************************************************************************)
(* Catalog search.  The texts of the products are the source's strings,    *)
(* with the three non-ASCII characters written in ASCII: the rupee sign as *)
(* #, the em dash as = and the en dash as ;, none of which occurs in the   *)
(* texts otherwise.  subsidy is "" where the source has None.              *)
(***************************************************************************)
TRANSACTION_TEXT ==
    [ personal_loan |->
        [name |-> "Personal Loan",
         description |-> "Unsecured personal loan for any purpose",
         lenders |-> <<"Banks", "NBFCs", "Fintech">>,
         subsidy |-> ""],
      business_loan |->
        [name |-> "Business Loan / Working Capital",
         description |-> "Working capital or business expansion loan",
         lenders |-> <<"Banks", "NBFCs", "SIDBI">>,
         subsidy |-> ""],
      home_loan |->
        [name |-> "Home Loan",
         description |-> "Long-term secured loan for property purchase",
         lenders |-> <<"Banks", "HFCs">>,
         subsidy |-> "PMAY = up to #2.67L interest subsidy for EWS/LIG"],
      vehicle_loan |->
        [name |-> "Vehicle / Auto Loan",
         description |-> "Secured loan for two-wheeler or four-wheeler purchase",
         lenders |-> <<"Banks", "NBFCs">>,
         subsidy |-> ""],
      education_loan |->
        [name |-> "Education Loan",
         description |-> "Loan for higher education (Vidya Lakshmi portal eligible)",
         lenders |-> <<"Banks", "Vidya Lakshmi Portal">>,
         subsidy |-> "Interest subsidy for EWS under CSIS scheme (family income < #4.5L)"],
      gold_loan |->
        [name |-> "Gold Loan",
         description |-> "Quick secured loan against gold ornaments",
         lenders |-> <<"Banks", "Muthoot", "Manappuram", "IIFL">>,
         subsidy |-> ""],
      credit_card |->
        [name |-> "Credit Card",
         description |-> "Revolving credit line for purchases",
         lenders |-> <<"Banks">>,
         subsidy |-> ""],
      loan_against_fd |->
        [name |-> "Loan Against FD / MF",
         description |-> "Loan against Fixed Deposit or Mutual Fund holdings",
         lenders |-> <<"Banks", "AMCs">>,
         subsidy |-> ""],
      emergency_loan |->
        [name |-> "Emergency / Instant Loan",
         description |-> "Quick disbursal micro loan for emergencies",
         lenders |-> <<"Fintech Apps", "NBFCs">>,
         subsidy |-> ""] ]

PERSONA_TEXT ==
    [ farmer |->
        [ kcc |->
            [name |-> "Kisan Credit Card (KCC)",
             description |-> "Crop loan + working capital at subsidized rates. 3% interest subvention by GoI.",
             lenders |-> <<"Cooperative Banks", "Regional Rural Banks", "Commercial Banks">>,
             subsidy |-> "4% interest subvention (effective rate ~4% for prompt repayment)"],
          crop_loan |->
            [name |-> "Crop Loan",
             description |-> "Short-term loan for crop sowing, seeds, fertilizers.",
             lenders |-> <<"Cooperative Banks", "NABARD">>,
             subsidy |-> "Interest subvention under Modified Interest Subvention Scheme (MISS)"],
          farm_equipment |->
            [name |-> "Farm Equipment Loan",
             description |-> "Loan for tractors, tillers, pumps, irrigation equipment.",
             lenders |-> <<"Banks", "NABARD", "Mahindra Finance">>,
             subsidy |-> "Subsidy under SMAM scheme (25-50% for small/marginal farmers)"],
          dairy_poultry |->
            [name |-> "Dairy / Poultry / Fishery Loan",
             description |-> "Loan for dairy cattle, poultry farm, inland fisheries.",
             lenders |-> <<"NABARD", "Cooperative Banks", "AHDF">>,
             subsidy |-> "25-33% subsidy under DEDS/PMMSY"],
          solar_pump |->
            [name |-> "Solar Pump Loan (PM-KUSUM)",
             description |-> "Solar irrigation pump = 60% subsidy by Central+State Govt.",
             lenders |-> <<"NABARD", "State Energy Dept", "Banks">>,
             subsidy |-> "60% capital subsidy (30% Central + 30% State)"],
          warehouse_receipt |->
            [name |-> "Warehouse Receipt Loan",
             description |-> "Loan against stored crop in registered warehouse.",
             lenders |-> <<"WDRA", "Banks", "NABARD">>,
             subsidy |-> ""] ],
      student |->
        [ education_loan |->
            [name |-> "Education Loan (Vidya Lakshmi)",
             description |-> "Central Sector Education Loan via Vidya Lakshmi Portal. Moratorium during study period + 1 year.",
             lenders |-> <<"Banks (SBI, PNB, BOB)", "Vidya Lakshmi Portal">>,
             subsidy |-> "Full interest subsidy during moratorium for family income < #4.5L/yr (CSIS)"],
          skill_loan |->
            [name |-> "Skill Development Loan",
             description |-> "Loan for vocational/skill training courses (NSDC approved).",
             lenders |-> <<"Banks", "NSDC">>,
             subsidy |-> "Interest subsidy for courses under PMKVY"],
          device_loan |->
            [name |-> "Laptop / Device Loan",
             description |-> "EMI-based purchase of laptop, tablet, or smartphone.",
             lenders |-> <<"Bajaj Finserv", "HDB Financial", "ZestMoney">>,
             subsidy |-> ""],
          startup_loan |->
            [name |-> "Startup India Seed Loan",
             description |-> "Seed funding loan for student/graduate entrepreneurs.",
             lenders |-> <<"SIDBI", "Startup India Fund">>,
             subsidy |-> "80% guarantee cover under CGTMSE"] ],
      street_vendor |->
        [ pm_svanidhi |->
            [name |-> "PM SVANidhi (Street Vendor Loan)",
             description |-> "Government micro-credit for street vendors. #10K (1st), #20K (2nd), #50K (3rd tranche). 7% interest subsidy + cashback for digital payments.",
             lenders |-> <<"Banks", "MFIs", "NBFCs", "SHGs">>,
             subsidy |-> "7% interest subsidy + #1,200/yr digital payment cashback"],
          mudra_shishu |->
            [name |-> "Mudra Loan = Shishu (up to #50K)",
             description |-> "Mudra Shishu loan for micro-business working capital.",
             lenders |-> <<"Banks", "MFIs", "NBFCs">>,
             subsidy |-> ""],
          mudra_kishore |->
            [name |-> "Mudra Loan = Kishore (#50K;#5L)",
             description |-> "Mudra Kishore for business expansion / equipment purchase.",
             lenders |-> <<"Banks", "NBFCs", "SIDBI">>,
             subsidy |-> ""],
          cart_equipment |->
            [name |-> "Cart / Equipment Loan",
             description |-> "Loan for carts, cooking equipment, tools, display units.",
             lenders |-> <<"MFIs", "Cooperative Banks">>,
             subsidy |-> ""],
          working_capital_micro |->
            [name |-> "Working Capital Micro Loan",
             description |-> "Short-term working capital for daily stock purchase.",
             lenders |-> <<"MFIs", "SHGs", "Fintech Apps">>,
             subsidy |-> ""] ],
      homemaker |->
        [ shg_loan |->
            [name |-> "SHG Group Loan (NRLM)",
             description |-> "Joint Liability Group / SHG loan under NRLM/DAY-NRLM. 3% interest subvention for women SHGs.",
             lenders |-> <<"NABARD", "Cooperative Banks", "SHG Federations">>,
             subsidy |-> "3% interest subvention for women SHGs (effective rate ~4%)"],
          mudra_shishu_w |->
            [name |-> "Mudra Loan = Shishu (Women)",
             description |-> "Mudra Shishu for women-led micro enterprises = tiffin service, tailoring, beauty parlour, etc.",
             lenders |-> <<"Banks", "MFIs">>,
             subsidy |-> ""],
          standup_india |->
            [name |-> "Stand-Up India Loan (Women)",
             description |-> "Loan for women entrepreneurs = manufacturing, services, or trading. At least 1 per bank branch.",
             lenders |-> <<"Scheduled Commercial Banks">>,
             subsidy |-> "CGTMSE guarantee cover, margin money 25%"],
          micro_enterprise_w |->
            [name |-> "Micro Enterprise Loan",
             description |-> "Individual micro enterprise loan for home-based business.",
             lenders |-> <<"MFIs", "NBFCs", "Cooperative Banks">>,
             subsidy |-> ""],
          gold_loan_w |->
            [name |-> "Gold Loan",
             description |-> "Quick secured loan against gold jewellery.",
             lenders |-> <<"Muthoot", "Manappuram", "Banks">>,
             subsidy |-> ""] ],
      general_no_bank |->
        [ mudra_shishu_g |->
            [name |-> "Mudra Loan = Shishu",
             description |-> "Basic micro loan for starting a small business.",
             lenders |-> <<"Banks", "MFIs", "NBFCs">>,
             subsidy |-> ""],
          personal_micro |->
            [name |-> "Personal Micro Loan",
             description |-> "Small unsecured personal loan from MFIs/Fintech.",
             lenders |-> <<"MFIs", "Fintech Apps", "SHGs">>,
             subsidy |-> ""],
          emergency_micro |->
            [name |-> "Emergency Micro Loan",
             description |-> "Quick-disbursal emergency loan for immediate needs.",
             lenders |-> <<"MFIs", "Fintech Apps">>,
             subsidy |-> ""],
          gold_loan_g |->
            [name |-> "Gold Loan",
             description |-> "Secured loan against gold. No income proof needed.",
             lenders |-> <<"Muthoot", "Manappuram", "Banks">>,
             subsidy |-> ""],
          jlg_loan |->
            [name |-> "Joint Liability Group (JLG) Loan",
             description |-> "Loan through a group of 5-10 members. Group guarantee replaces collateral.",
             lenders |-> <<"NABARD", "MFIs", "Cooperative Banks">>,
             subsidy |-> ""] ] ]

\* The keys of PERSONA_LOANS in the dict's insertion order
PersonaOrder == <<"farmer", "student", "street_vendor", "homemaker", "general_no_bank">>

\* str.lower() of one character
LowerOf ==
    [A |-> "a", B |-> "b", C |-> "c", D |-> "d", E |-> "e", F |-> "f", G |-> "g",
     H |-> "h", I |-> "i", J |-> "j", K |-> "k", L |-> "l", M |-> "m", N |-> "n",
     O |-> "o", P |-> "p", Q |-> "q", R |-> "r", S |-> "s", T |-> "t", U |-> "u",
     V |-> "v", W |-> "w", X |-> "x", Y |-> "y", Z |-> "z"]

CharAt(s, i) == SubSeq(s, i, i)

LowerChar(c) == IF c \in DOMAIN LowerOf THEN LowerOf[c] ELSE c

\* str.lower()
RECURSIVE lower(_)
lower(s) ==
    IF Len(s) = 0 THEN ""
    ELSE IF Len(s) = 1 THEN LowerChar(s)
    ELSE lower(SubSeq(s, 1, Len(s) \div 2)) \o lower(SubSeq(s, Len(s) \div 2 + 1, Len(s)))

RECURSIVE lstrip(_)
lstrip(s) ==
    IF Len(s) > 0 /\ CharAt(s, 1) = " " THEN lstrip(SubSeq(s, 2, Len(s))) ELSE s

RECURSIVE rstrip(_)
rstrip(s) ==
    IF Len(s) > 0 /\ CharAt(s, Len(s)) = " " THEN rstrip(SubSeq(s, 1, Len(s) - 1)) ELSE s

\* str.strip(), for the blanks a text input can carry
strip(s) == rstrip(lstrip(s))

\* sep.join(parts)
RECURSIVE join(_, _)
join(sep, parts) ==
    IF Len(parts) = 0 THEN ""
    ELSE IF Len(parts) = 1 THEN parts[1]
    ELSE parts[1] \o sep \o join(sep, Tail(parts))

\* needle in text
Contains(text, needle) ==
    \E i \in 1..(Len(text) - Len(needle) + 1) : SubSeq(text, i, i + Len(needle) - 1) = needle

\* {**loan, "key": key, "source": "transaction", "persona": None, ...}; the
\* left operand of @@ wins, and persona None is written ""
TransactionEntry(loan) ==
    [source |-> "transaction", persona |-> "", eligibility_criteria |-> <<>>]
        @@ TRANSACTION_TEXT[loan.key] @@ loan

PersonaEntry(persona_key, loan) ==
    [source |-> "persona", persona |-> persona_key]
        @@ PERSONA_TEXT[persona_key][loan.key] @@ loan

RECURSIVE PersonaEntries(_)
PersonaEntries(p) ==
    IF p > Len(PersonaOrder) THEN <<>>
    ELSE [i \in 1..Len(PERSONA_LOANS[PersonaOrder[p]]) |->
              PersonaEntry(PersonaOrder[p], PERSONA_LOANS[PersonaOrder[p]][i])]
         \o PersonaEntries(p + 1)

get_all_loans_catalog ==
    [i \in 1..Len(TRANSACTION_LOANS) |-> TransactionEntry(TRANSACTION_LOANS[i])]
        \o PersonaEntries(1)

SearchableText(loan) ==
    lower(join(" ", <<loan.name, loan.category, loan.description, join(" ", loan.lenders),
                      loan.key, loan.persona, loan.subsidy>>))

\* The searchable text of every entry of the catalog, computed once
SearchableTexts ==
    [i \in 1..Len(get_all_loans_catalog) |-> SearchableText(get_all_loans_catalog[i])]

searchable(loan) ==
    SearchableTexts[CHOOSE i \in 1..Len(get_all_loans_catalog) : get_all_loans_catalog[i] = loan]

\* A variant of Kept whose rate ceiling looks at the product's highest rate
Kept_by_highest_rate(loan, query_lower, category, source_filter, persona_filter, collateral_filter, subsidy_filter, max_rate, min_amount) ==
    /\ ~(query_lower # "" /\ ~Contains(searchable(loan), query_lower))
    /\ ~(category # "" /\ lower(loan.category) # lower(category))
    /\ ~(source_filter # "" /\ loan.source # source_filter)
    /\ ~(persona_filter # "" /\ loan.persona # persona_filter)
    /\ ~(collateral_filter = "no" /\ loan.collateral)
    /\ ~(collateral_filter = "yes" /\ ~loan.collateral)
    /\ ~(subsidy_filter /\ loan.subsidy = "")
    /\ ~(max_rate > 0 /\ loan.interest_range[2] > max_rate)
    /\ ~(min_amount > 0 /\ loan.amount_range[2] < min_amount)

\* The body of the loop: a loan reaches results.append unless one of the
\* filters says continue
Kept(loan, query_lower, category, source_filter, persona_filter, collateral_filter, subsidy_filter, max_rate, min_amount) ==
    /\ ~(query_lower # "" /\ ~Contains(searchable(loan), query_lower))
    /\ ~(category # "" /\ lower(loan.category) # lower(category))
    /\ ~(source_filter # "" /\ loan.source # source_filter)
    /\ ~(persona_filter # "" /\ loan.persona # persona_filter)
    /\ ~(collateral_filter = "no" /\ loan.collateral)
    /\ ~(collateral_filter = "yes" /\ ~loan.collateral)
    /\ ~(subsidy_filter /\ loan.subsidy = "")
    /\ ~(max_rate > 0 /\ loan.interest_range[1] > max_rate)
    /\ ~(min_amount > 0 /\ loan.amount_range[2] < min_amount)

SearchWith(query_lower, category, source_filter, persona_filter, collateral_filter, subsidy_filter, max_rate, min_amount) ==
    SelectSeq(get_all_loans_catalog,
              LAMBDA loan : Kept(loan, query_lower, category, source_filter, persona_filter,
                                 collateral_filter, subsidy_filter, max_rate, min_amount))

search_loans(query, category, source_filter, persona_filter, collateral_filter, subsidy_filter, max_rate, min_amount) ==
    SearchWith(lower(strip(query)), category, source_filter, persona_filter,
               collateral_filter, subsidy_filter, max_rate, min_amount)

(***************************************************************************)
(* The Find Loans page: every change of a filter searches the catalog      *)
(* again.  Rates in basis points, amounts in paise.                        *)
(***************************************************************************)
Queries == {"", "  ", " Gold ", "mudra", "nonexistent_xyz_123"}

CategoryFilters == {"", "agriculture", "Personal"}

SourceFilters == {"", "transaction", "persona"}

PersonaFilters == {"", "farmer", "gig_worker"}

CollateralFilters == {"", "yes", "no"}

MaxRates == {0, 800}

MinAmounts == {0, Rs(1000000)}

Call_search_loans ==
    /\ pc = "idle"
    /\ \E query \in Queries, category \in CategoryFilters, source_filter \in SourceFilters, persona_filter \in PersonaFilters, collateral_filter \in CollateralFilters, subsidy_filter \in BOOLEAN, max_rate \in MaxRates, min_amount \in MinAmounts :
         /\ call' = [fn |-> "search_loans", query |-> query, category |-> category,
                     source_filter |-> source_filter, persona_filter |-> persona_filter,
                     collateral_filter |-> collateral_filter, subsidy_filter |-> subsidy_filter,
                     max_rate |-> max_rate, min_amount |-> min_amount]
         /\ result' = search_loans(query, category, source_filter, persona_filter,
                                   collateral_filter, subsidy_filter, max_rate, min_amount)
    /\ pc' = "returned"

NextSearch == Call_search_loans \/ Return

SpecSearch == Init /\ [][NextSearch]_vars

(***************************************************************************)
(* Objects.  The functions of the engine work on Python objects: the       *)
(* module's tables, the dict, list or row a caller passes by reference,    *)
(* and the dicts and lists a call creates.  objects gives the value of     *)
(* each; a call is a function from objects to objects, and what it returns *)
(* is read from the object it created.                                     *)
(***************************************************************************)
NoObject == <<>>

\* One item of SCORE_TIERS.items(): the key and the tier's dict
TierItem(tier) == <<tier.tier_key, [f \in DOMAIN tier \ {"tier_key"} |-> tier[f]]>>

\* The objects after the modules are imported
LoadedObjects ==
    [SCORE_TIERS |-> [i \in 1..Len(SCORE_TIERS) |-> TierItem(SCORE_TIERS[i])],
     TRANSACTION_LOANS |-> TRANSACTION_LOANS,
     PERSONA_LOANS |-> PERSONA_LOANS,
     PERSONAS |-> PERSONAS,
     argument |-> NoObject,
     locals |-> NoObject]

\* The caller passes a reference to its object
Passing(objects, argument) == [objects EXCEPT !.argument = argument, !.locals = NoObject]

\* The call binds what it builds to names of its own
Allocated(objects, value) == [objects EXCEPT !.locals = value]

\* for tier_key, tier in SCORE_TIERS.items(): ... return {**tier, "tier_key": tier_key}
RECURSIVE TierItemScan(_, _, _)
TierItemScan(items, i, score) ==
    IF i > Len(items) THEN [tier_key |-> "very_poor"] @@ items[Len(items)][2]
    ELSE IF Pts(items[i][2].range[1]) <= score /\ score <= Pts(items[i][2].range[2])
    THEN [tier_key |-> items[i][1]] @@ items[i][2]
    ELSE TierItemScan(items, i + 1, score)

get_score_tier_objects(objects, score) ==
    Allocated(objects, TierItemScan(objects.SCORE_TIERS, 1, score))

\* A variant of compare_loans that writes the composite into the caller's
\* loan (loan["_composite_score"] = composite; scored.append(loan))
compare_loans_objects_in_place(objects) ==
    IF objects.argument = <<>> THEN Allocated(objects, <<>>)
    ELSE [objects EXCEPT
            !.argument = [i \in 1..Len(@) |-> IF @[i].eligible THEN Scored(@[i]) ELSE @[i]],
            !.locals = SortByCompositeDesc(ScoredEligible(objects.argument), 1, <<>>)]

\* scored = []; scored.append({**loan, "_composite_score": composite});
\* scored.sort(...): the copies and the sort are on the list of the call
compare_loans_objects(objects) ==
    IF objects.argument = <<>> THEN Allocated(objects, <<>>)
    ELSE Allocated(objects, SortByCompositeDesc(ScoredEligible(objects.argument), 1, <<>>))

\* One call of a public function on the objects.  The bundles, the verdict,
\* the search results and the scores are built in dicts and lists of the call
\* (eligible_loans, reasons, results, criteria_results, ...).
Run(fn, args, objects) ==
    CASE fn = "get_score_tier" -> get_score_tier_objects(objects, args[1])
      [] fn = "analyze_repayment_capacity" ->
            Allocated(objects, analyze_repayment_capacity(args[1], args[2], args[3], args[4]))
      [] fn = "get_transaction_loan_recommendations" ->
            Allocated(objects, get_transaction_loan_recommendations(args[1], args[2], args[3], args[4]))
      [] fn = "get_persona_loan_recommendations" ->
            Allocated(objects, get_persona_loan_recommendations(args[1], args[2], objects.argument, args[3]))
      [] fn = "check_loan_eligibility" ->
            Allocated(objects, check_loan_eligibility(args[1], args[2], args[3], args[4], args[5],
                                   args[6], args[7], objects.argument, args[8], args[9]))
      [] fn = "search_loans" ->
            Allocated(objects, search_loans(args[1], args[2], args[3], args[4], args[5], args[6], args[7], args[8]))
      [] fn = "compare_loans" -> compare_loans_objects(objects)
      [] fn = "compute_persona_score" ->
            Allocated(objects, compute_persona_score(args[1], objects.argument))
      [] fn = "compute_final_score" ->
            Allocated(objects, compute_final_score(args[1], args[2], objects.argument))

\* What the call returns: scored[:3] for compare_loans, else the object built
Returns(fn, after) ==
    IF fn = "compare_loans" THEN FirstThree(after.locals) ELSE after.locals

(***************************************************************************)
(* Callers of the public functions, one after another on the same objects. *)
(* A caller may repeat its call before it lets go of what it passed.       *)
(***************************************************************************)
InitObjects ==
    /\ pc = "idle"
    /\ call = [fn |-> "none", objects |-> LoadedObjects]
    /\ result = NoResult

Invoked(fn, args, passed, after) ==
    /\ call' = [fn |-> fn, args |-> args, passed |-> passed, repeated |-> FALSE,
                first |-> NoResult, objects |-> after]
    /\ result' = Returns(fn, after)
    /\ pc' = "returned"

Invoke(fn, args, passed) ==
    Invoked(fn, args, passed, Run(fn, args, Passing(call.objects, passed)))

Objects_get_score_tier ==
    /\ pc = "idle"
    /\ \E score \in Scores : Invoke("get_score_tier", <<score>>, NoObject)

Objects_analyze_repayment_capacity ==
    /\ pc = "idle"
    /\ \E monthly_income \in Incomes, existing_emi \in ExistingEmis, foir_cap \in FoirCaps :
         Invoke("analyze_repayment_capacity", <<monthly_income, 0, existing_emi, foir_cap>>, NoObject)

Objects_get_transaction_loan_recommendations ==
    /\ pc = "idle"
    /\ \E score \in Scores, monthly_income \in Incomes :
         Invoke("get_transaction_loan_recommendations", <<score, monthly_income, 0, 0>>, NoObject)

Objects_get_persona_loan_recommendations ==
    /\ pc = "idle"
    /\ \E persona \in ComparedPersonas, score \in Scores, d \in PersonaDatas :
         Invoke("get_persona_loan_recommendations", <<persona, score, 0>>, PersonaDataList[d])

Objects_check_loan_eligibility ==
    /\ pc = "idle"
    /\ \E source \in {"transaction", "persona"}, score \in Scores, d \in PersonaDatas :
         \E loan_key \in KeysTried(source, "farmer") :
            Invoke("check_loan_eligibility",
                   <<loan_key, source, "farmer", score, Rs(30000), 0, 0, 0, 0>>, PersonaDataList[d])

Objects_search_loans ==
    /\ pc = "idle"
    /\ \E query \in Queries, source_filter \in SourceFilters, subsidy_filter \in BOOLEAN :
         Invoke("search_loans", <<query, "", source_filter, "", "", subsidy_filter, 0, 0>>, NoObject)

Objects_compare_loans ==
    /\ pc = "idle"
    /\ \E score \in Scores, persona \in ComparedPersonas \cup {""} :
         \E loans \in LoanLists(IF persona = ""
                                THEN get_transaction_loan_recommendations(score, Rs(30000), 0, 0)
                                ELSE get_persona_loan_recommendations(persona, score, EmptyDict, Rs(30000))) :
            Invoke("compare_loans", <<>>, loans)

Objects_compute_persona_score ==
    /\ pc = "idle"
    /\ \E persona \in PersonaKeys, fill \in Fills :
         Invoke("compute_persona_score", <<persona>>,
                FormData(WeightsOrNone(persona), [i \in 1..Len(WeightsOrNone(persona)) |-> fill],
                         Len(WeightsOrNone(persona))))

Objects_compute_final_score ==
    /\ pc = "idle"
    /\ \E base_score \in BaseScores, risk_probability \in Risks, row \in ConfidenceRows \cup {NoRow} :
         Invoke("compute_final_score", <<base_score, risk_probability>>, row)

\* The same call again, with the same arguments, on the objects as they are
Objects_repeat ==
    /\ pc = "returned"
    /\ ~call.repeated
    /\ call' = [call EXCEPT !.repeated = TRUE, !.first = result,
                            !.objects = Run(call.fn, call.args, Passing(call.objects, call.objects.argument))]
    /\ result' = Returns(call.fn, Run(call.fn, call.args, Passing(call.objects, call.objects.argument)))
    /\ pc' = "returned"

\* The caller lets go of what it passed and of what it got
Objects_return ==
    /\ pc = "returned"
    /\ pc' = "idle"
    /\ call' = [fn |-> "none", objects |-> Passing(call.objects, NoObject)]
    /\ result' = NoResult

NextObjects ==
    \/ Objects_get_score_tier
    \/ Objects_analyze_repayment_capacity
    \/ Objects_get_transaction_loan_recommendations
    \/ Objects_get_persona_loan_recommendations
    \/ Objects_check_loan_eligibility
    \/ Objects_search_loans
    \/ Objects_compare_loans
    \/ Objects_compute_persona_score
    \/ Objects_compute_final_score
    \/ Objects_repeat
    \/ Objects_return

SpecObjects == InitObjects /\ [][NextObjects]_vars

(***************************************************************************)
(* Properties                                                              *)
(***************************************************************************)
Returned(fn) == pc = "returned" /\ call.fn = fn

InVeryPoorBand(score) == Pts(300) <= score /\ score <= Pts(399)

TiersContaining(score) == {i \in 1..Len(SCORE_TIERS) : InRange(SCORE_TIERS[i], score)}

\* C1 (as claimed): every score s with 300 <= s <= 900, fractional scores
\* included, lies in exactly one SCORE_TIERS range and get_score_tier(s)
\* returns that tier; the default branch is not taken inside [300, 900].
C1_TierPartition ==
    (Returned("get_score_tier") /\ Pts(300) <= call.score /\ call.score <= Pts(900))
        => /\ Cardinality(TiersContaining(call.score)) = 1
           /\ \A i \in TiersContaining(call.score) : result = SCORE_TIERS[i]

\* C2: for every score in the Very Poor band [300, 399], whatever the other
\* inputs, check_loan_eligibility returns NOT_ELIGIBLE for every product it
\* finds, and both recommendation functions return total_eligible = 0 and
\* max_simultaneous_loans = 0.
C2_VeryPoorNeverEligible ==
    /\ (Returned("check_loan_eligibility") /\ InVeryPoorBand(call.score)
           /\ result.verdict # "LOAN_NOT_FOUND")
          => result.verdict = "NOT_ELIGIBLE"
    /\ ((Returned("get_transaction_loan_recommendations")
            \/ Returned("get_persona_loan_recommendations"))
           /\ InVeryPoorBand(call.score))
          => /\ result.total_eligible = 0
             /\ Len(result.eligible_loans) = 0
             /\ result.max_simultaneous_loans = 0

\* C2 witness: a Very Poor applicant with a high income, no EMI and a score
\* that meets the product's own minimum is still refused.
C2_Witness ==
    /\ Returned("check_loan_eligibility")
    /\ InVeryPoorBand(call.score)
    /\ call.monthly_income = Rs(100000) /\ call.existing_emi = 0
    /\ \E i \in 1..Len(result.reasons_pass) : result.reasons_pass[i].check = "score"
    /\ result.verdict = "NOT_ELIGIBLE"

\* C3: the verdict of analyze_repayment_capacity follows the decision list
\* income <= 0 -> NOT_ELIGIBLE (all amounts 0, a risk flag present); else with
\* max_new_emi = max(income * foir_cap - existing_emi, 0): <= 0 ->
\* NOT_ELIGIBLE; < 2000 -> MICRO_ONLY; a risk flag -> ELIGIBLE_WITH_CAUTION;
\* else ELIGIBLE.  So ELIGIBLE comes with no risk flag and max_new_emi >= 2000.
C3_RepaymentDecisionList ==
    Returned("analyze_repayment_capacity") =>
        LET room == call.monthly_income * call.foir_cap - 100 * call.existing_emi
        IN  /\ call.monthly_income <= 0 =>
                 /\ result.verdict = "NOT_ELIGIBLE"
                 /\ result.max_new_emi = 0 /\ result.max_total_emi = 0
                 /\ result.disposable_income = 0 /\ result.current_foir = 0
                 /\ Len(result.risk_flags) > 0
            /\ call.monthly_income > 0 =>
                 /\ 100 * result.max_new_emi - room \in -50..50 \/ room < 0
                 /\ room < 0 => result.max_new_emi = 0
                 /\ result.verdict =
                       (IF room <= 0 THEN "NOT_ELIGIBLE"
                        ELSE IF room < 100 * Rs(2000) THEN "MICRO_ONLY"
                        ELSE IF Len(result.risk_flags) > 0 THEN "ELIGIBLE_WITH_CAUTION"
                        ELSE "ELIGIBLE")
            /\ result.verdict = "ELIGIBLE" =>
                 Len(result.risk_flags) = 0 /\ result.max_new_emi >= Rs(2000)

\* C3 witness: room for a new EMI of 2000 or more, with a risk flag
C3_Witness ==
    /\ Returned("analyze_repayment_capacity")
    /\ call.monthly_income > 0
    /\ result.max_new_emi >= Rs(2000)
    /\ Len(result.risk_flags) > 0
    /\ result.verdict = "ELIGIBLE_WITH_CAUTION"

VerdictRank(verdict) ==
    CASE verdict = "ELIGIBLE" -> 0
      [] verdict = "ELIGIBLE_WITH_CAUTION" -> 1
      [] verdict = "MICRO_ONLY" -> 2
      [] verdict = "NOT_ELIGIBLE" -> 3

\* C4: with income, expenses and foir_cap fixed, an analysis at a larger
\* existing_emi never gives a less restrictive verdict (ELIGIBLE <
\* ELIGIBLE_WITH_CAUTION < MICRO_ONLY < NOT_ELIGIBLE) nor a larger max_new_emi
\* than the earlier analysis at the smaller existing_emi.
C4_MoreEmiNeverBetter ==
    (Returned("analyze_repayment_capacity") /\ call.earlier.seen) =>
        /\ call.earlier.existing_emi <= call.existing_emi
        /\ VerdictRank(result.verdict) >= VerdictRank(call.earlier.verdict)
        /\ result.max_new_emi <= call.earlier.max_new_emi

\* C4 witness: the second analysis, at a larger EMI, is strictly worse
C4_Witness ==
    /\ Returned("analyze_repayment_capacity")
    /\ call.earlier.seen
    /\ call.earlier.existing_emi < call.existing_emi
    /\ call.earlier.verdict = "ELIGIBLE"
    /\ result.verdict = "MICRO_ONLY"
    /\ result.max_new_emi < call.earlier.max_new_emi

LoanKeys(loans) == {loans[i].key : i \in 1..Len(loans)}

\* 1 when the gate failed, 0 when it passed
Failed(gate_failed) == IF gate_failed THEN 1 ELSE 0

\* C5: in get_transaction_loan_recommendations a product is in eligible_loans
\* if and only if all four hard gates pass (score >= min_score, income >=
\* min_income, the tier allows loans, repayment verdict not NOT_ELIGIBLE); a
\* product failing a gate is in ineligible_loans with one reason per failed
\* gate.
C5_TransactionHardGates ==
    Returned("get_transaction_loan_recommendations") =>
        \A i \in 1..Len(TRANSACTION_LOANS) :
            LET product == TRANSACTION_LOANS[i]
                failed ==
                    Failed(call.score < Pts(product.min_score))
                    + Failed(call.monthly_income < product.min_income)
                    + Failed(result.tier.max_simultaneous_loans = 0)
                    + Failed(result.repayment_capacity.verdict = "NOT_ELIGIBLE")
            IN  /\ (failed = 0) <=> (product.key \in LoanKeys(result.eligible_loans))
                /\ (failed > 0) <=> (product.key \in LoanKeys(result.ineligible_loans))
                /\ \A j \in 1..Len(result.ineligible_loans) :
                      result.ineligible_loans[j].key = product.key
                          => Len(result.ineligible_loans[j].reasons) = failed

\* C5 witness: one bundle with an eligible product, a product failing only
\* the income gate, and a product failing both the score and the income gate
C5_Witness ==
    /\ Returned("get_transaction_loan_recommendations")
    /\ Len(result.eligible_loans) > 0
    /\ \E j \in 1..Len(result.ineligible_loans) :
          result.ineligible_loans[j].reasons = <<"Income below minimum">>
    /\ \E j \in 1..Len(result.ineligible_loans) :
          result.ineligible_loans[j].reasons
              = <<"Score below minimum", "Income below minimum">>

\* C6 (as claimed): a bundle of get_persona_loan_recommendations whose
\* repayment_capacity verdict is NOT_ELIGIBLE has no eligible loan.
C6_PersonaRepaymentGate ==
    (Returned("get_persona_loan_recommendations")
        /\ result.repayment_capacity.verdict = "NOT_ELIGIBLE")
        => Len(result.eligible_loans) = 0

\* The product a check_loan_eligibility call is about (the call found it)
CalledLoan == ResolveLoan(call.loan_key, call.source, call.persona)[1]

CheckFound == Returned("check_loan_eligibility") /\ result.verdict # "LOAN_NOT_FOUND"

\* C7 (as claimed): for a persona product whose score, tier and repayment
\* gates pass, criteria that are missing or falsy never make the product
\* ineligible: neither the 'eligible' flag of its detail in
\* get_persona_loan_recommendations nor the 'eligible' field returned by
\* check_loan_eligibility with source = "persona" (no amount asked) is false.
C7_CriteriaSoftGate ==
    /\ Returned("get_persona_loan_recommendations") =>
          \A i \in 1..Len(PersonaCatalog(call.persona)) :
              LET product == PersonaCatalog(call.persona)[i]
              IN  (/\ call.score >= Pts(product.min_score)
                   /\ result.tier.max_simultaneous_loans > 0
                   /\ result.repayment_capacity.verdict # "NOT_ELIGIBLE")
                      => product.key \in LoanKeys(result.eligible_loans)
    /\ (CheckFound /\ call.source = "persona" /\ call.desired_amount = 0
           /\ call.score >= Pts(CalledLoan.min_score)
           /\ result.tier # "Very Poor"
           /\ result.repayment_capacity.verdict # "NOT_ELIGIBLE")
          => result.eligible

\* The four hard gates of a check_loan_eligibility call that found its product
ScoreGateFails == call.score < Pts(CalledLoan.min_score)
IncomeGateFails ==
    call.source = "transaction" /\ call.monthly_income < LoanMinIncome(CalledLoan)
TierGateFails == result.tier = "Very Poor"
RepaymentGateFails == result.repayment_capacity.verdict = "NOT_ELIGIBLE"
AnyGateFails == ScoreGateFails \/ IncomeGateFails \/ TierGateFails \/ RepaymentGateFails

HasFailReason(check) ==
    \E i \in 1..Len(result.reasons_fail) : result.reasons_fail[i].check = check

HasGap(check) ==
    \E i \in 1..Len(result.gap_analysis) : result.gap_analysis[i].check = check

\* C8: for a product found in the catalog the verdict of
\* check_loan_eligibility follows the precedence tier allows no loans ->
\* NOT_ELIGIBLE; score below min_score or (transaction source) income below
\* min_income -> NOT_ELIGIBLE; repayment NOT_ELIGIBLE -> NOT_ELIGIBLE;
\* repayment MICRO_ONLY -> MICRO_ONLY; any remaining fail reason ->
\* ELIGIBLE_WITH_CAUTION; otherwise ELIGIBLE - the desired-amount adjustment
\* then turning ELIGIBLE into ELIGIBLE_WITH_CAUTION.  A failed score, income,
\* tier or repayment gate always gives NOT_ELIGIBLE.
C8_VerdictPrecedence ==
    CheckFound =>
        LET first ==
                IF TierGateFails THEN "NOT_ELIGIBLE"
                ELSE IF ScoreGateFails \/ IncomeGateFails THEN "NOT_ELIGIBLE"
                ELSE IF RepaymentGateFails THEN "NOT_ELIGIBLE"
                ELSE IF result.repayment_capacity.verdict = "MICRO_ONLY"
                THEN "MICRO_ONLY"
                ELSE IF HasFailReason("criteria") THEN "ELIGIBLE_WITH_CAUTION"
                ELSE "ELIGIBLE"
        IN  /\ result.verdict =
                  (IF first = "ELIGIBLE" /\ HasFailReason("amount")
                   THEN "ELIGIBLE_WITH_CAUTION" ELSE first)
            /\ AnyGateFails => result.verdict = "NOT_ELIGIBLE"

\* C8 witness: every gate passes, a persona criterion is missing, and the
\* repayment verdict MICRO_ONLY decides
C8_Witness ==
    /\ CheckFound
    /\ ~AnyGateFails
    /\ HasFailReason("criteria")
    /\ result.verdict = "MICRO_ONLY"

\* C9 (as claimed): in every result of check_loan_eligibility, verdict =
\* ELIGIBLE implies reasons_fail is empty, and eligible = true implies
\* reasons_fail is empty.
C9_EligibleMeansNoFailReason ==
    Returned("check_loan_eligibility") =>
        /\ result.verdict = "ELIGIBLE" => Len(result.reasons_fail) = 0
        /\ result.eligible => Len(result.reasons_fail) = 0

\* The maximum amount of a check_loan_eligibility call, before it is rounded
\* for display
CalledMaxAmount ==
    CheckMaxAmount(CalledLoan, get_score_tier(call.score), call.score,
                   CheckIncome(call.source, call.persona, call.monthly_income,
                               call.persona_data),
                   result.repayment_capacity, call.desired_tenure)

\* The verdict of the same call made without a desired amount
VerdictWithoutAmount ==
    check_loan_eligibility(call.loan_key, call.source, call.persona, call.score,
        call.monthly_income, call.monthly_expenses, call.existing_emi,
        call.persona_data, 0, call.desired_tenure).verdict

\* C10 (as claimed): when every gate passes and desired_amount exceeds the
\* computed maximum, the verdict is ELIGIBLE_WITH_CAUTION, amount_ok is false
\* and gap_analysis has a 'Loan Amount' entry; when 0 < desired_amount <= the
\* maximum, actual_amount equals desired_amount and the verdict is the one
\* given without the amount.
C10_AmountAsClaimed ==
    (CheckFound /\ ~AnyGateFails) =>
        /\ call.desired_amount > CalledMaxAmount =>
              /\ result.verdict = "ELIGIBLE_WITH_CAUTION"
              /\ ~result.loan_details.amount_ok
              /\ HasGap("Loan Amount")
        /\ (0 < call.desired_amount /\ call.desired_amount <= CalledMaxAmount) =>
              /\ result.loan_details.actual_amount = call.desired_amount
              /\ result.verdict = VerdictWithoutAmount

\* C10 (amended): when every gate passes and desired_amount exceeds the
\* computed maximum, the verdict is MICRO_ONLY if the repayment verdict is
\* MICRO_ONLY and ELIGIBLE_WITH_CAUTION otherwise (never ELIGIBLE, never
\* NOT_ELIGIBLE), eligible and amount_ok are false and gap_analysis has a
\* 'Loan Amount' entry; when 0 < desired_amount <= the maximum, amount_ok is
\* true, actual_amount is desired_amount rounded to a whole rupee, and the
\* verdict is the one given without the amount.
C10_AmountAmended ==
    (CheckFound /\ ~AnyGateFails) =>
        /\ call.desired_amount > CalledMaxAmount =>
              /\ result.verdict =
                    (IF result.repayment_capacity.verdict = "MICRO_ONLY"
                     THEN "MICRO_ONLY" ELSE "ELIGIBLE_WITH_CAUTION")
              /\ ~result.eligible
              /\ ~result.loan_details.amount_ok
              /\ HasGap("Loan Amount")
        /\ (0 < call.desired_amount /\ call.desired_amount <= CalledMaxAmount) =>
              /\ result.loan_details.amount_ok
              /\ result.loan_details.actual_amount = Round0(call.desired_amount)
              /\ result.verdict = VerdictWithoutAmount

\* C10 witness: every gate passes, the amount asked exceeds the maximum and
\* the verdict stays MICRO_ONLY
C10_Witness ==
    /\ CheckFound
    /\ ~AnyGateFails
    /\ call.desired_amount > CalledMaxAmount
    /\ result.verdict = "MICRO_ONLY"
    /\ HasGap("Loan Amount")

\* The keys of the catalog a check_loan_eligibility call selects: the
\* transaction catalog, or the sub-catalog of a known persona
SelectedCatalogKeys ==
    IF call.source = "transaction" THEN {TRANSACTION_LOANS[i].key : i \in 1..Len(TRANSACTION_LOANS)}
    ELSE IF call.source = "persona" /\ call.persona \in DOMAIN PERSONA_LOANS
    THEN {PERSONA_LOANS[call.persona][i].key : i \in 1..Len(PERSONA_LOANS[call.persona])}
    ELSE {}

\* C11: check_loan_eligibility called with a loan_key that is not in the
\* selected catalog (unknown key, unknown or empty persona, a source that is
\* neither transaction nor persona) returns eligible = false, verdict =
\* LOAN_NOT_FOUND, exactly one fail reason and empty reasons_pass,
\* gap_analysis, loan_details and improvement_steps; for a key of the
\* selected catalog the verdict is never LOAN_NOT_FOUND.
C11_LoanNotFound ==
    Returned("check_loan_eligibility") =>
        /\ call.loan_key \in SelectedCatalogKeys => result.verdict # "LOAN_NOT_FOUND"
        /\ call.loan_key \notin SelectedCatalogKeys =>
              /\ result.verdict = "LOAN_NOT_FOUND"
              /\ ~result.eligible
              /\ Len(result.reasons_fail) = 1
              /\ result.reasons_pass = <<>>
              /\ result.gap_analysis = <<>>
              /\ result.loan_details = EmptyDict
              /\ result.improvement_steps = <<>>

\* C11 witness: a known persona asked for a product of another catalog
C11_Witness ==
    /\ Returned("check_loan_eligibility")
    /\ call.source = "persona" /\ call.persona = "farmer"
    /\ call.loan_key = "personal_loan"
    /\ result.verdict = "LOAN_NOT_FOUND"

\* C18: calculate_emi followed by max_loan_from_emi at the same rate and tenure
\* gives the principal back: exactly at a zero rate, where calculate_emi
\* returns principal / tenure_months and max_loan_from_emi returns EMI times
\* tenure_months; otherwise within the rounding of the EMI to the paisa, which
\* the inverse multiplies by at most tenure_months, and the rounding of the
\* result (half a paisa each). Both return 0 when the principal, the EMI
\* budget or the tenure is not positive.
AbsDiff(a, b) == IF a >= b THEN a - b ELSE b - a

C19_AmortizationClosure ==
    Returned("generate_repayment_schedule") =>
        IF call.principal <= 0 \/ call.tenure_months <= 0 THEN result = <<>>
        ELSE call.annual_rate > 0 =>
               /\ Len(result) = call.tenure_months
               /\ \A i \in 1..Len(result) : result[i].emi = result[1].emi
               /\ \A i \in 1..(Len(result) - 1) : result[i + 1].balance <= result[i].balance
               /\ result[Len(result)].balance < Rs(1)

\* C20: compare_loans returns at most three loans, all of them eligible loans
\* of the input, ordered by non-increasing _composite_score; no eligible loan
\* of the input that was left out has a composite score strictly greater than
\* a returned one; an empty input, or one without an eligible loan, gives an
\* empty list.
ReturnedKeys == {result[i].key : i \in 1..Len(result)}

LeftOut == {k \in 1..Len(call.loans) : call.loans[k].eligible /\ call.loans[k].key \notin ReturnedKeys}

C20_TopThree ==
    Returned("compare_loans") =>
        /\ Len(result) <= 3
        /\ \A i \in 1..Len(result) :
              /\ result[i].eligible
              /\ \E k \in 1..Len(call.loans) : Scored(call.loans[k]) = result[i]
        /\ \A i \in 1..Len(result), j \in 1..Len(result) :
              i < j => result[i]._composite_score >= result[j]._composite_score
        /\ \A k \in LeftOut, i \in 1..Len(result) :
              CompositeScore(call.loans[k]) <= result[i]._composite_score
        /\ (\A k \in 1..Len(call.loans) : ~call.loans[k].eligible) => result = <<>>

\* More than three eligible loans, not in composite order as they came
C20_Witness ==
    /\ Returned("compare_loans")
    /\ Len(result) = 3 /\ LeftOut # {}
    /\ \E k \in 1..Len(call.loans) : ~call.loans[k].eligible
    /\ \E k \in 1..(Len(call.loans) - 1) :
          /\ call.loans[k].eligible /\ call.loans[k + 1].eligible
          /\ CompositeScore(call.loans[k]) < CompositeScore(call.loans[k + 1])

\* C14: for feature rows in their documented ranges, base scores in
\* [300, 900] and risk probabilities in [0, 1], base_trust_score and
\* final_trust_score lie in [300, 900] and the confidence in [0.40, 0.95].
InScoreRange(score) == MIN_SCORE * Percent <= score /\ score <= MAX_SCORE * Percent

C14_ScoreRanges ==
    /\ Returned("compute_base_score") => InScoreRange(result.base_trust_score)
    /\ Returned("compute_final_score") =>
          /\ InScoreRange(result.final_trust_score)
          /\ 40 <= result.confidence /\ result.confidence <= 95
    /\ Returned("compute_data_confidence") => (40 <= result /\ result <= 95)

\* A thin row whose raw confidence lies below the floor, and a row scored
\* at the ceiling of the base score
C14_Witness ==
    /\ Returned("compute_final_score")
    /\ call.row # NoRow /\ RawConfidence(call.row) < 40 * 300
    /\ result.confidence = 40
    /\ call.base_score = MAX_SCORE * Percent /\ call.risk_probability = 0
    /\ result.final_trust_score = MAX_SCORE * Percent

\* C15 as claimed: final_trust_score never rises with the risk probability,
\* is the base score rounded to a whole number at risk 0, is 300 at risk 1,
\* and is at most the base score whenever the risk is positive.
RoundedBase == Percent * RoundHalfEven(call.base_score, Percent)

RiskPenalty ==
    /\ call.earlier.seen => result.final_trust_score <= call.earlier.final_trust_score
    /\ call.risk_probability = 0 => result.final_trust_score = RoundedBase
    /\ call.risk_probability = RiskScale => result.final_trust_score = MIN_SCORE * Percent

C15_RiskPenaltyAsClaimed ==
    Returned("compute_final_score") =>
        /\ RiskPenalty
        /\ call.risk_probability > 0 => result.final_trust_score <= call.base_score

\* C15, amended: the same, with the last bound on the base score rounded to
\* a whole number: final_trust_score is a whole number, and rounding can
\* lift it above a fractional base score by less than a point.
C15_RiskPenaltyAmended ==
    Returned("compute_final_score") =>
        /\ RiskPenalty
        /\ call.risk_probability > 0 => result.final_trust_score <= RoundedBase

\* A fractional base score scored again at a higher risk, with a lower result
C15_Witness ==
    /\ Returned("compute_final_score")
    /\ call.base_score = 75060
    /\ call.earlier.seen /\ call.earlier.risk_probability = 1
    /\ call.earlier.final_trust_score = 751 * Percent
    /\ call.risk_probability = 2500
    /\ result.final_trust_score < call.earlier.final_trust_score

\* C16: the grade returned with a final score is the one the thresholds
\* assign to the score returned: Excellent from 750, Good from 650, Fair from
\* 500, Poor from 400, Very Poor below.
C16_GradeOfReturnedScore ==
    Returned("compute_final_score") =>
        result.grade = GradeOf(result.final_trust_score, Percent)

\* The weighted sum of the components of a sub-score, in hundredths of a
\* point: the weights are hundredths and sum to 100
WeightedSum(components, weights) ==
    (components[1] * weights[1] + components[2] * weights[2] + components[3] * weights[3]) \div 100

InPoints(x) == 0 <= x /\ x <= 100 * Percent

ThreeConvex ==
    /\ Returned("payment_discipline_score") =>
          /\ result.sub_payment_discipline =
                WeightedSum(<<result.detail_utility, result.detail_emi, result.detail_recharge>>, <<40, 35, 25>>)
          /\ InPoints(result.sub_payment_discipline)
    /\ Returned("digital_behavior_score") =>
          /\ result.sub_digital_behavior =
                WeightedSum(<<result.detail_txn_regularity, result.detail_expense, 0>>, <<50, 50, 0>>)
          /\ InPoints(result.sub_digital_behavior)
    /\ Returned("work_reliability_score") =>
          /\ result.sub_work_reliability =
                WeightedSum(<<result.detail_work_rel, result.detail_diversity, result.detail_shock_recovery>>, <<45, 25, 30>>)
          /\ InPoints(result.sub_work_reliability)

FinancialSum ==
    WeightedSum(<<result.detail_income_stability, result.detail_cash_flow, result.detail_savings>>, <<40, 35, 25>>)

\* C17 as claimed: each of the four sub-scores is the weighted sum of its
\* components, with fixed non-negative weights that sum to 1, and lies in
\* [0, 100] for components in [0, 100].
C17_ConvexAsClaimed ==
    /\ ThreeConvex
    /\ Returned("financial_stability_score") =>
          /\ result.sub_financial_stability = FinancialSum
          /\ InPoints(result.sub_financial_stability)

\* C17, amended: payment discipline, digital behaviour and work reliability
\* are such weighted sums; financial stability is the weighted sum of income
\* stability, cash flow and savings (0.40, 0.35, 0.25) plus the trend bonus
\* max(10 * feat_income_trend, 0), cut at 100.  All four lie in [0, 100].
C17_ConvexAmended ==
    /\ ThreeConvex
    /\ Returned("financial_stability_score") =>
          /\ result.detail_trend_bonus = Max2(call.row.feat_income_trend * 10, 0)
          /\ result.sub_financial_stability = Min2(FinancialSum + result.detail_trend_bonus, 100 * Percent)
          /\ InPoints(result.sub_financial_stability)

\* A rising income lifts financial stability above the weighted sum
C17_Witness ==
    /\ Returned("financial_stability_score")
    /\ call.row.feat_income_trend = 25
    /\ result.detail_trend_bonus = 250
    /\ result.sub_financial_stability = FinancialSum + 250

PersonaFunctions ==
    {"compute_persona_score", "get_persona_loan_recommendations",
     "get_improvement_tips", "get_persona_form_fields"}

\* A public function of the persona path has returned from a call with a
\* persona that is none of the five
UnknownPersonaCalled ==
    /\ pc = "returned"
    /\ call.fn \in PersonaFunctions
    /\ call.persona \notin DOMAIN PERSONAS

\* What came back is a result of the function's kind and not an exception
StructuredResult ==
    CASE call.fn = "compute_persona_score" ->
            "raised" \notin DOMAIN result /\ "trust_score" \in DOMAIN result
      [] call.fn = "get_persona_loan_recommendations" ->
            "eligible_loans" \in DOMAIN result /\ "ineligible_loans" \in DOMAIN result
      [] call.fn = "get_improvement_tips" -> Len(result) <= 5
      [] call.fn = "get_persona_form_fields" -> Len(result) = 0

\* C12 (as claimed): called with a persona that is not one of the five fixed
\* personas, each of compute_persona_score, get_persona_loan_recommendations,
\* get_improvement_tips and get_persona_form_fields returns a structured
\* result and never lets an exception out.
C12_UnknownPersonaStructured == UnknownPersonaCalled => StructuredResult

\* The three functions other than compute_persona_score do return a
\* structured result for a persona that is none of the five
C12_OthersStructured ==
    (UnknownPersonaCalled /\ call.fn # "compute_persona_score") => StructuredResult

\* compute_persona_score has returned from a call for one of the five personas
PersonaScoreReturned ==
    /\ pc = "returned"
    /\ call.fn = "compute_persona_score"
    /\ call.persona \in DOMAIN PERSONAS

\* The criteria of the persona called for
CalledCriteria == PERSONAS[call.persona]

\* The criteria of the breakdown whose score is above 0.20
FilledCriteria ==
    {i \in 1..Len(result.criteria_breakdown) : result.criteria_breakdown[i].score > 2000}

\* clamp(filled_count / criteria_count, 0.30, 0.95), in 1 / criteria_count
\* hundredths
ClampedRatio ==
    Max2(30 * result.criteria_count,
         Min2(Percent * result.filled_count, 95 * result.criteria_count))

\* No raise, the score and the confidence in their ranges, filled_count the
\* number of criteria scored above 0.20 and one result per criterion
PersonaScoreShape ==
    /\ "raised" \notin DOMAIN result
    /\ result.trust_score >= MIN_SCORE /\ result.trust_score <= MAX_SCORE
    /\ result.confidence >= 30 /\ result.confidence <= 95
    /\ result.filled_count = Cardinality(FilledCriteria)
    /\ result.criteria_count = Len(CalledCriteria)
    /\ Len(result.criteria_breakdown) = Len(CalledCriteria)
    /\ \A i \in 1..Len(CalledCriteria) :
          /\ result.criteria_breakdown[i].criterion = CalledCriteria[i][1]
          /\ result.criteria_breakdown[i].score >= 0
          /\ result.criteria_breakdown[i].score <= CriterionScale

\* C13 (as claimed): for each of the five personas and every input dict built
\* from a subset of the persona's fields, the empty dict included,
\* compute_persona_score does not raise and returns 300 <= trust_score <= 900
\* and 0.30 <= confidence <= 0.95 with confidence equal to
\* clamp(filled_count / criteria_count, 0.30, 0.95), filled_count being the
\* number of criteria whose score is above 0.20, and a criteria_breakdown
\* holding one result per criterion of the persona.
C13_PersonaScoreAsClaimed ==
    PersonaScoreReturned =>
        /\ PersonaScoreShape
        /\ result.confidence * result.criteria_count = ClampedRatio

\* C13 (amended): the same, with confidence equal to
\* clamp(filled_count / criteria_count, 0.30, 0.95) rounded to two decimals:
\* the hundredth nearest to the clamped ratio, the even one at a tie.
C13_PersonaScoreAmended ==
    PersonaScoreReturned =>
        /\ PersonaScoreShape
        /\ 2 * AbsDiff(result.confidence * result.criteria_count, ClampedRatio) <= result.criteria_count
        /\ (2 * AbsDiff(result.confidence * result.criteria_count, ClampedRatio) = result.criteria_count
                => result.confidence % 2 = 0)

\* C13 witness: general_no_bank is scored on the empty dict; three of its
\* seven criteria score above 0.20 on their defaults and the confidence
\* returned is 0.43
C13_Witness ==
    /\ PersonaScoreReturned
    /\ call.persona = "general_no_bank"
    /\ DOMAIN call.data = {}
    /\ result.filled_count = 3 /\ result.criteria_count = 7
    /\ result.confidence = 43
    /\ result.trust_score = 411

\* 0.35 * rate_desirability + 0.30 * amount_desirability + 0.20 * has_subsidy
\* + 0.15 * no_collateral, in the units of CompositeScore (1.5e9 to the unit)
ClaimedComposite(loan) ==
    175000 * Max2(0, 3000 - loan.effective_rate)
    + 9 * Min2(loan.max_loan_amount, Rs(500000))
    + (IF loan.subsidy THEN 300000000 ELSE 0)
    + (IF loan.collateral_required THEN 0 ELSE 225000000)

CompositeUnit == 1500000000

\* C25 (as claimed): the composite score compare_loans attaches to an
\* eligible loan equals 0.35 * rate_desirability + 0.30 * amount_desirability
\* + 0.20 * has_subsidy + 0.15 * no_collateral, with no_collateral 1 when no
\* collateral is required and 0 otherwise, and lies in [0, 1].
C25_CompositeAsClaimed ==
    Returned("compare_loans") =>
        \A i \in 1..Len(result) :
            /\ result[i]._composite_score = ClaimedComposite(result[i])
            /\ result[i]._composite_score >= 0
            /\ result[i]._composite_score <= CompositeUnit

\* The composite lies in [0, 1] all the same, and what the code attaches is
\* the claimed sum with the collateral term halved
C25_CompositeRange ==
    Returned("compare_loans") =>
        \A i \in 1..Len(result) :
            /\ result[i]._composite_score >= 0
            /\ result[i]._composite_score <= CompositeUnit
            /\ result[i]._composite_score
                  = ClaimedComposite(result[i]) - (IF result[i].collateral_required THEN 0 ELSE 112500000)

\* The breakdown get_improvement_tips was given, and its criteria below 0.50
TipBreakdown == call.result.criteria_breakdown

WeakCriteria == {i \in 1..Len(TipBreakdown) : TipBreakdown[i].score < 5000}

TippedCriteria == {result[i].criterion : i \in 1..Len(result)}

\* Every tip is for a criterion of the breakdown scoring below 0.50, carries
\* that score, and the tips are in ascending order of score, five at most
TipsWeakAndSorted ==
    /\ Len(result) <= 5
    /\ \A i \in 1..Len(result) :
          \E k \in WeakCriteria :
             /\ TipBreakdown[k].criterion = result[i].criterion
             /\ TipBreakdown[k].score = result[i].current_score
    /\ \A i \in 1..Len(result), j \in 1..Len(result) :
          i < j => result[i].current_score <= result[j].current_score
    /\ Cardinality(TippedCriteria) = Len(result)

\* C26 (as claimed): get_improvement_tips emits a tip for every criterion of
\* the breakdown whose score is below 0.50 and none for a criterion at 0.50
\* or above, orders the tips by ascending current_score and returns at most
\* five: the result is exactly the (up to) five lowest-scoring criteria
\* among those below 0.50.
C26_TipsAsClaimed ==
    Returned("get_improvement_tips") =>
        /\ TipsWeakAndSorted
        /\ Len(result) = Min2(5, Cardinality(WeakCriteria))
        /\ \A k \in WeakCriteria :
              TipBreakdown[k].criterion \notin TippedCriteria
                 => \A i \in 1..Len(result) : result[i].current_score <= TipBreakdown[k].score

\* What does hold: the same with future_potential, which has no tip entry,
\* counted out of the criteria below 0.50
C26_TipsButFuturePotential ==
    Returned("get_improvement_tips") =>
        /\ TipsWeakAndSorted
        /\ Len(result) = Min2(5, Cardinality({k \in WeakCriteria : TipBreakdown[k].criterion # "future_potential"}))
        /\ \A k \in WeakCriteria :
              (TipBreakdown[k].criterion \notin TippedCriteria /\ TipBreakdown[k].criterion # "future_potential")
                 => \A i \in 1..Len(result) : result[i].current_score <= TipBreakdown[k].score

\* A scorer of the registry has returned from a call with the empty dict
ScorerReturnedOnEmpty ==
    /\ pc = "returned"
    /\ call.fn = "CRITERIA_REGISTRY"
    /\ DOMAIN call.data = {}

\* C27 (as claimed): every criterion scorer of CRITERIA_REGISTRY, called with
\* an empty input dict, returns a result with a score and a label whose
\* score is strictly greater than 0 and at most 1.
C27_EmptyDictScoreAsClaimed ==
    ScorerReturnedOnEmpty =>
        /\ {"score", "label"} \subseteq DOMAIN result
        /\ result.score > 0
        /\ result.score <= CriterionScale

\* What does hold: the score on the empty dict lies in [0, 1], and it is 0
\* for exactly the nine scorers whose every component defaults to nothing
ZeroOnEmpty ==
    {"subsidy_linkage", "market_engagement", "academic_performance",
     "scholarship_history", "skill_certifications", "attendance_discipline",
     "community_trust", "years_in_trade", "id_verification"}

C27_EmptyDictScore ==
    ScorerReturnedOnEmpty =>
        /\ {"score", "label"} \subseteq DOMAIN result
        /\ result.score >= 0
        /\ result.score <= CriterionScale
        /\ (result.score = 0) = (call.criterion \in ZeroOnEmpty)

\* rate_low + fraction of the span, to the nearest basis point
WithinRange(interest_range, tenths) ==
    interest_range[1] + (2 * (interest_range[2] - interest_range[1]) * tenths + 10) \div 20

\* The rate the claim gives a transaction product at a score
ClaimedTransactionRate(interest_range, score) ==
    IF score >= Pts(750) THEN interest_range[1]
    ELSE IF score >= Pts(650) THEN WithinRange(interest_range, 3)
    ELSE IF score >= Pts(500) THEN WithinRange(interest_range, 6)
    ELSE interest_range[2]

\* The rate the claim gives a persona product at a score
ClaimedPersonaRate(interest_range, score) ==
    IF score >= Pts(700) THEN interest_range[1]
    ELSE IF score >= Pts(550) THEN WithinRange(interest_range, 4)
    ELSE interest_range[2]

\* The product of a catalog with a key
ProductOf(catalog, key) == CatalogGet(catalog, key)[1]

\* Every loan detail of the bundle returned, eligible or not
BundleLoans == result.eligible_loans \o result.ineligible_loans

\* The recommendation builders report the rate of their rule
BuildersRate ==
    /\ Returned("get_transaction_loan_recommendations") =>
          \A i \in 1..Len(BundleLoans) :
             BundleLoans[i].effective_rate
                = ClaimedTransactionRate(ProductOf(TRANSACTION_LOANS, BundleLoans[i].key).interest_range, call.score)
    /\ Returned("get_persona_loan_recommendations") =>
          \A i \in 1..Len(BundleLoans) :
             BundleLoans[i].effective_rate
                = ClaimedPersonaRate(ProductOf(PersonaCatalog(call.persona), BundleLoans[i].key).interest_range, call.score)

\* check_loan_eligibility has returned loan details with a rate
CheckReportsRate ==
    /\ Returned("check_loan_eligibility")
    /\ "effective_rate" \in DOMAIN result.loan_details

\* C23 (as claimed): the effective_rate of a product is chosen inside its own
\* interest_range by score bucket, transaction products by 750 / 650 / 500
\* with 0.3 and 0.6 of the span, persona products by 700 / 550 with 0.4 of
\* the span, in the recommendation builders and in check_loan_eligibility
\* alike, so that for the same product and score the two report the same
\* rate.
C23_RateAsClaimed ==
    /\ BuildersRate
    /\ CheckReportsRate =>
          result.loan_details.effective_rate
             = IF call.source = "persona"
               THEN ClaimedPersonaRate(CalledLoan.interest_range, call.score)
               ELSE ClaimedTransactionRate(CalledLoan.interest_range, call.score)

\* What does hold: the builders follow their rules, and check_loan_eligibility
\* applies the transaction rule to the products of every catalog
C23_CheckUsesTransactionRule ==
    /\ BuildersRate
    /\ CheckReportsRate =>
          /\ result.loan_details.effective_rate
                = ClaimedTransactionRate(CalledLoan.interest_range, call.score)
          /\ result.loan_details.effective_rate >= CalledLoan.interest_range[1]
          /\ result.loan_details.effective_rate <= CalledLoan.interest_range[2]

\* The income the persona builder worked with: the one given, or the
\* estimate when none was given
PersonaIncomeUsed ==
    IF call.monthly_income <= 0
    THEN _estimate_income_from_persona(call.persona, call.persona_data)
    ELSE call.monthly_income

\* min(product maximum amount, income x tier exposure multiplier)
ClaimedCap(product, income, tier) ==
    Min2(product.amount_range[2], income * tier.max_exposure_multiplier)

\* mid_tenure of a product
MidTenure(product) == (product.tenure_range[1] + product.tenure_range[2]) \div 2

\* Amounts are reported in whole rupees: equal up to that rounding
SameRupees(a, b) == AbsDiff(a, b) <= Rs(1)

\* The transaction path sizes max_loan_amount and recommended_amount as the
\* claim says, up to the rounding of both to whole rupees
TransactionSizing ==
    Returned("get_transaction_loan_recommendations") =>
        \A i \in 1..Len(BundleLoans) :
           /\ BundleLoans[i].max_loan_amount
                 = Round0(Min2(ClaimedCap(ProductOf(TRANSACTION_LOANS, BundleLoans[i].key),
                                          call.monthly_income, result.tier),
                               max_loan_from_emi(result.repayment_capacity.max_new_emi,
                                   BundleLoans[i].effective_rate,
                                   MidTenure(ProductOf(TRANSACTION_LOANS, BundleLoans[i].key)))))
           /\ SameRupees(BundleLoans[i].recommended_amount,
                         MulDiv(BundleLoans[i].max_loan_amount, 4, 5))

\* C24 (as claimed): on the persona path recommended_amount equals 60% of
\* min(product maximum amount, monthly income x tier exposure multiplier); on
\* the transaction path recommended_amount equals 80% of max_loan_amount,
\* with max_loan_amount = min(product maximum amount, income x tier exposure
\* multiplier, max_loan_from_emi(max_new_emi, effective_rate, mid_tenure)).
C24_SizingAsClaimed ==
    /\ TransactionSizing
    /\ Returned("get_persona_loan_recommendations") =>
          \A i \in 1..Len(BundleLoans) :
             SameRupees(BundleLoans[i].recommended_amount,
                        MulDiv(ClaimedCap(ProductOf(PersonaCatalog(call.persona), BundleLoans[i].key),
                                          PersonaIncomeUsed, result.tier), 3, 5))

\* What does hold: the transaction path is as claimed; on the persona path
\* the income cap counts only when it is positive and below the product
\* maximum, and the recommended amount is never below the product minimum
C24_SizingWithFloor ==
    /\ TransactionSizing
    /\ Returned("get_persona_loan_recommendations") =>
          \A i \in 1..Len(BundleLoans) :
             /\ BundleLoans[i].max_loan_amount
                   = Round0(IF ClaimedCap(ProductOf(PersonaCatalog(call.persona), BundleLoans[i].key),
                                          PersonaIncomeUsed, result.tier) > 0
                            THEN ClaimedCap(ProductOf(PersonaCatalog(call.persona), BundleLoans[i].key),
                                            PersonaIncomeUsed, result.tier)
                            ELSE ProductOf(PersonaCatalog(call.persona), BundleLoans[i].key).amount_range[2])
             /\ SameRupees(BundleLoans[i].recommended_amount,
                           Max2(MulDiv(BundleLoans[i].max_loan_amount, 3, 5), BundleLoans[i].min_amount))

\* A recommendation bundle has been returned
BundleReturned ==
    \/ Returned("get_transaction_loan_recommendations")
    \/ Returned("get_persona_loan_recommendations")

\* The catalog the bundle returned was built from
BundleCatalog ==
    IF call.fn = "get_transaction_loan_recommendations" THEN TRANSACTION_LOANS
    ELSE PersonaCatalog(call.persona)

\* An offer one can take: the maximum within the product's amount range, a
\* positive maximum and a positive instalment
Usable(detail, product) ==
    /\ product.amount_range[1] <= detail.max_loan_amount
    /\ detail.max_loan_amount <= product.amount_range[2]
    /\ detail.max_loan_amount > 0
    /\ detail.emi > 0

\* C28 (as claimed): in every loan detail produced by
\* get_transaction_loan_recommendations and get_persona_loan_recommendations
\* recommended_amount <= max_loan_amount, and for every loan listed in
\* eligible_loans the product minimum amount <= max_loan_amount <= product
\* maximum amount, with max_loan_amount > 0 and emi > 0.
C28_UsableOfferAsClaimed ==
    BundleReturned =>
        /\ \A i \in 1..Len(BundleLoans) :
              BundleLoans[i].recommended_amount <= BundleLoans[i].max_loan_amount
        /\ \A i \in 1..Len(result.eligible_loans) :
              Usable(result.eligible_loans[i], ProductOf(BundleCatalog, result.eligible_loans[i].key))

\* The transaction path alone: recommended_amount <= max_loan_amount
C28_TransactionRecommended ==
    Returned("get_transaction_loan_recommendations") =>
        \A i \in 1..Len(BundleLoans) :
           BundleLoans[i].recommended_amount <= BundleLoans[i].max_loan_amount

\* The transaction path alone: every eligible offer is usable
C28_TransactionUsable ==
    Returned("get_transaction_loan_recommendations") =>
        \A i \in 1..Len(result.eligible_loans) :
           Usable(result.eligible_loans[i], ProductOf(TRANSACTION_LOANS, result.eligible_loans[i].key))

\* Every bundle: the maximum never exceeds the product maximum
C28_WithinProductMaximum ==
    BundleReturned =>
        \A i \in 1..Len(BundleLoans) :
           /\ BundleLoans[i].max_loan_amount <= ProductOf(BundleCatalog, BundleLoans[i].key).amount_range[2]
           /\ BundleLoans[i].max_loan_amount >= 0

\* A tenure within the product's tenure_range and the tier's max_tenure_months
TenureFits(tenure, product, tier) ==
    /\ product.tenure_range[1] <= tenure
    /\ tenure <= product.tenure_range[2]
    /\ tenure <= tier.max_tenure_months

\* check_loan_eligibility has returned details for a call without a desired
\* tenure
CheckProposesTenure ==
    /\ Returned("check_loan_eligibility")
    /\ "actual_tenure_months" \in DOMAIN result.loan_details
    /\ call.desired_tenure = 0

\* The tenure the recommendation builder of the call's source proposes for
\* the product the check was asked about
BuilderTenure ==
    IF call.source = "persona" THEN PersonaTenure(CalledLoan, get_score_tier(call.score))
    ELSE TransactionTenure(CalledLoan, get_score_tier(call.score))

\* C29 (as claimed): for every eligible loan the tenure proposed,
\* suggested_tenure in the recommendation builders and actual_tenure_months
\* in check_loan_eligibility, lies within the product's tenure_range and
\* does not exceed the tier's max_tenure_months; and for the same product,
\* score and income, with no desired_tenure, the two propose the same tenure.
C29_TenureAsClaimed ==
    /\ BundleReturned =>
          \A i \in 1..Len(result.eligible_loans) :
             TenureFits(result.eligible_loans[i].suggested_tenure,
                        ProductOf(BundleCatalog, result.eligible_loans[i].key), result.tier)
    /\ CheckProposesTenure =>
          /\ TenureFits(result.loan_details.actual_tenure_months, CalledLoan, get_score_tier(call.score))
          /\ result.loan_details.actual_tenure_months = BuilderTenure

\* What does hold: the builders never exceed the product maximum nor the
\* tier maximum; the check stays within the product's range
C29_TenureBounds ==
    /\ BundleReturned =>
          \A i \in 1..Len(result.eligible_loans) :
             /\ result.eligible_loans[i].suggested_tenure <= result.eligible_loans[i].tenure_range[2]
             /\ result.eligible_loans[i].suggested_tenure <= result.tier.max_tenure_months
    /\ CheckProposesTenure =>
          /\ CalledLoan.tenure_range[1] <= result.loan_details.actual_tenure_months
          /\ result.loan_details.actual_tenure_months <= CalledLoan.tenure_range[2]

\* The verdict of check_loan_eligibility for a product of the bundle's
\* catalog, on the arguments the bundle was asked with and no desired amount
\* or tenure
CheckVerdictFor(loan_key) ==
    IF call.fn = "get_transaction_loan_recommendations"
    THEN check_loan_eligibility(loan_key, "transaction", "", call.score, call.monthly_income,
             call.monthly_expenses, call.existing_emi, EmptyDict, 0, 0).verdict
    ELSE check_loan_eligibility(loan_key, "persona", call.persona, call.score, call.monthly_income,
             0, 0, call.persona_data, 0, 0).verdict

EligibleKeys == {result.eligible_loans[i].key : i \in 1..Len(result.eligible_loans)}

IneligibleKeys == {result.ineligible_loans[i].key : i \in 1..Len(result.ineligible_loans)}

\* The two lists hold every product of the catalog exactly once, the count is
\* reported and the eligible loans come largest maximum first
BundlePartition ==
    BundleReturned =>
        /\ EligibleKeys \cup IneligibleKeys = CatalogKeys(BundleCatalog)
        /\ EligibleKeys \cap IneligibleKeys = {}
        /\ Len(BundleLoans) = Len(BundleCatalog)
        /\ result.total_eligible = Len(result.eligible_loans)
        /\ \A i \in 1..Len(result.eligible_loans), j \in 1..Len(result.eligible_loans) :
              i < j => result.eligible_loans[i].max_loan_amount >= result.eligible_loans[j].max_loan_amount

\* C30 (as claimed): for every catalog product and the same score, income,
\* expenses, existing EMI and persona data, the product is in eligible_loans
\* of the recommendation bundle if and only if check_loan_eligibility returns
\* a verdict other than NOT_ELIGIBLE for it; eligible_loans and
\* ineligible_loans together hold every product of the catalog exactly once,
\* total_eligible = len(eligible_loans), and eligible_loans is ordered by
\* non-increasing max_loan_amount.
C30_BundleAgreesWithCheckAsClaimed ==
    /\ BundlePartition
    /\ BundleReturned =>
          \A key \in CatalogKeys(BundleCatalog) :
             (key \in EligibleKeys) = (CheckVerdictFor(key) # "NOT_ELIGIBLE")

\* One direction, on the transaction path
C30_TransactionEligibleThenChecked ==
    Returned("get_transaction_loan_recommendations") =>
        \A key \in EligibleKeys : CheckVerdictFor(key) # "NOT_ELIGIBLE"

\* The other direction, on the transaction path
C30_TransactionCheckedThenEligible ==
    Returned("get_transaction_loan_recommendations") =>
        \A key \in IneligibleKeys : CheckVerdictFor(key) = "NOT_ELIGIBLE"

\* One direction, on the persona path
C30_PersonaEligibleThenChecked ==
    Returned("get_persona_loan_recommendations") =>
        \A key \in EligibleKeys : CheckVerdictFor(key) # "NOT_ELIGIBLE"

\* The other direction, on the persona path
C30_PersonaCheckedThenEligible ==
    Returned("get_persona_loan_recommendations") =>
        \A key \in IneligibleKeys : CheckVerdictFor(key) = "NOT_ELIGIBLE"

\* The query as it is matched: stripped and lower-cased
QueryText == lower(strip(call.query))

\* The conjunction of the active filters of the returned search, for one entry
\* of the catalog
Satisfies(loan) ==
    /\ QueryText = "" \/ Contains(searchable(loan), QueryText)
    /\ call.category = "" \/ lower(loan.category) = lower(call.category)
    /\ call.source_filter = "" \/ loan.source = call.source_filter
    /\ call.persona_filter = "" \/ loan.persona = call.persona_filter
    /\ call.collateral_filter = "yes" => loan.collateral
    /\ call.collateral_filter = "no" => ~loan.collateral
    /\ call.subsidy_filter => loan.subsidy # ""
    /\ call.max_rate > 0 => loan.interest_range[1] <= call.max_rate
    /\ call.min_amount > 0 => loan.amount_range[2] >= call.min_amount

Entries(loans) == {loans[i] : i \in 1..Len(loans)}

\* No filter but, possibly, the source filter is active
OnlySourceFilter ==
    /\ QueryText = "" /\ call.category = "" /\ call.persona_filter = ""
    /\ call.collateral_filter = "" /\ ~call.subsidy_filter
    /\ call.max_rate = 0 /\ call.min_amount = 0

\* The results of the returned search with one of its filters taken away
WithOneFilterLess ==
    { search_loans("", call.category, call.source_filter, call.persona_filter, call.collateral_filter, call.subsidy_filter, call.max_rate, call.min_amount),
      search_loans(call.query, "", call.source_filter, call.persona_filter, call.collateral_filter, call.subsidy_filter, call.max_rate, call.min_amount),
      search_loans(call.query, call.category, "", call.persona_filter, call.collateral_filter, call.subsidy_filter, call.max_rate, call.min_amount),
      search_loans(call.query, call.category, call.source_filter, "", call.collateral_filter, call.subsidy_filter, call.max_rate, call.min_amount),
      search_loans(call.query, call.category, call.source_filter, call.persona_filter, "", call.subsidy_filter, call.max_rate, call.min_amount),
      search_loans(call.query, call.category, call.source_filter, call.persona_filter, call.collateral_filter, FALSE, call.max_rate, call.min_amount),
      search_loans(call.query, call.category, call.source_filter, call.persona_filter, call.collateral_filter, call.subsidy_filter, 0, call.min_amount),
      search_loans(call.query, call.category, call.source_filter, call.persona_filter, call.collateral_filter, call.subsidy_filter, call.max_rate, 0) }

RECURSIVE PersonaCatalogSizes(_)
PersonaCatalogSizes(p) ==
    IF p > Len(PersonaOrder) THEN 0
    ELSE Len(PERSONA_LOANS[PersonaOrder[p]]) + PersonaCatalogSizes(p + 1)

\* C21: search_loans returns exactly the entries of get_all_loans_catalog()
\* that satisfy the conjunction of all active filters (substring query,
\* category, source, persona, collateral, subsidy-only, max_rate against the
\* product's lowest rate, min_amount against the product's highest amount), in
\* catalog order: with no query and no filter it returns the whole catalog,
\* adding a filter never adds a result, and the source filters 'transaction'
\* and 'persona' split the catalog into two disjoint parts of sizes
\* |TRANSACTION_LOANS| and the sum of the persona sub-catalog sizes.
C21_SearchIsFilterConjunction ==
    Returned("search_loans") =>
        /\ result = SelectSeq(get_all_loans_catalog, Satisfies)
        /\ (OnlySourceFilter /\ call.source_filter = "") => result = get_all_loans_catalog
        /\ \A wider \in WithOneFilterLess : Entries(result) \subseteq Entries(wider)
        /\ (OnlySourceFilter /\ call.source_filter = "transaction") =>
              /\ Len(result) = Len(TRANSACTION_LOANS)
              /\ \A loan \in Entries(result) : loan.source = "transaction"
              /\ Len(get_all_loans_catalog) - Len(result) = PersonaCatalogSizes(1)
        /\ (OnlySourceFilter /\ call.source_filter = "persona") =>
              /\ Len(result) = PersonaCatalogSizes(1)
              /\ \A loan \in Entries(result) : loan.source = "persona"
              /\ Len(get_all_loans_catalog) - Len(result) = Len(TRANSACTION_LOANS)

\* A search whose query, collateral filter and rate ceiling are all active
\* and that keeps some products and drops others
C21_Witness ==
    /\ Returned("search_loans")
    /\ call.query = " Gold " /\ call.collateral_filter = "yes" /\ call.max_rate = 800
    /\ Len(result) > 0 /\ Len(result) < Len(get_all_loans_catalog)

GlobalTables == {"SCORE_TIERS", "TRANSACTION_LOANS", "PERSONA_LOANS", "PERSONAS"}

\* What the call of the current state returns when it is made on the objects
\* as loaded, with the argument as the caller passed it
OnLoadedObjects == Returns(call.fn, Run(call.fn, call.args, Passing(LoadedObjects, call.passed)))

====
